---- MODULE Spec2Model ----
(***************************************************************************)
(* A model of the class loader of rust_jvm (src/src/class_loader.rs) and   *)
(* of the helpers it drives: the field-descriptor parser (field.rs), the   *)
(* array class (class_array.rs) and the result of the class-file decoder   *)
(* (class_file.rs); and of the lazily resolved class reference (class.rs). *)
(*                                                                         *)
(* Class names and descriptors are sequences of one-character strings, so  *)
(* that the string operations of the code (starts_with, slicing, the       *)
(* character iterators) are computed and not assumed.                      *)
(***************************************************************************)
EXTENDS Integers, Sequences, FiniteSets, TLC

VARIABLES
    classpath,   \* ClassLoader.classpath: the ordered roots, each a map file name -> entry
    class_map,   \* ClassLoader.class_map: name -> handle (an index into classes)
    classes,     \* ClassLoader.classes: the arena, in allocation order
    panicked,    \* TRUE once a panic has unwound main: the process is gone
    requests,    \* number of top-level create_class calls made so far
    last_call    \* a record of the last top-level create_class call: its argument,
                 \* the table before it, the inheritance_stack it was given
                 \* (entry_stack), the one it ended with and the one the call
                 \* before it ended with (stale_stack), and its logs

VARIABLES
    refs,            \* the ClassRef values held by the program, by position
    resolver_calls,  \* the names the LazyResolve implementation was called with
    ref_call         \* a record of the last get or resolve call on a ClassRef

VARIABLES
    stream,   \* the bytes handed to the decoder as its input
    outcome,  \* what the decoder returned for them
    lookup    \* the last lookup in the decoded constant pool

loader_vars == <<classpath, class_map, classes, panicked, requests, last_call>>
ref_vars == <<refs, resolver_calls, ref_call>>
decoder_vars == <<stream, outcome, lookup>>

vars == <<classpath, class_map, classes, panicked, requests, last_call,
          refs, resolver_calls, ref_call, stream, outcome, lookup>>

-----------------------------------------------------------------------------
(* Bounds of the model *)

\* number of top-level requests the bootstrap makes
MaxRequests == 2

\* depth of the call stack of the process, in create_class_rec frames
MaxDepth == 6

\* number of calls of the resolver the class-reference specification follows
MaxResolverCalls == 4

-----------------------------------------------------------------------------
(* Names *)

ObjectName == <<"j","a","v","a","/","l","a","n","g","/","O","b","j","e","c","t">>
NameA == <<"A">>
NameB == <<"B">>

\* the names for which the class path may hold a .class file
FileNames == {ObjectName, NameA, NameB}

\* k times '['
Brackets(k) == [i \in 1..k |-> "["]

ArrayName(k, component) == Brackets(k) \o component

\* the reference-component descriptor LA;
RefA == <<"L">> \o NameA \o <<";">>

\* the names requested of a loader whose class path varies: the file
\* names, an array of a primitive and an array of a reference type
RequestNames == FileNames \cup {ArrayName(2, <<"I">>), ArrayName(1, RefA)}

\* the array names requested in the array-class specification: primitive
\* components under 1, 2, 255 and 256 dimensions, reference components,
\* and components outside the descriptor grammar (an illegal letter, no
\* component at all, a reference type without its ';')
ArrayNames ==
    { ArrayName(k, <<c>>) : k \in {1, 2}, c \in {"B", "I", "J"} }
    \cup { ArrayName(255, <<"Z">>), ArrayName(256, <<"I">>),
           ArrayName(1, RefA), ArrayName(2, RefA),
           ArrayName(1, <<"X">>), ArrayName(1, <<>>),
           ArrayName(1, <<"L">> \o NameA) }

ArrayRequestNames == ArrayNames \cup {NameA}

-----------------------------------------------------------------------------
(* Values *)

\* Option::None of ClassFile.super_class, and ClassRef::Symbolic
NoSuper == [tag |-> "None", name |-> <<>>]
Symbolic(name) == [tag |-> "Symbolic", name |-> name]

\* the variants of ClassLoadingError
ClassLoadingError ==
    { "LinkageError", "ClassFormatError", "UnsupportedClassVersionError",
      "NoClassDefFoundError", "IncompatibleClassChangeError",
      "ClassCircularityError" }

\* ClassFile::CURRENT_VERSION
CURRENT_VERSION == 52

\* a version check that also turns the current version away
unsupported_from_current(major_version) == major_version >= CURRENT_VERSION

\* the version check of ClassFile::new: major_version > CURRENT_VERSION
unsupported(major_version) == major_version > CURRENT_VERSION

\* the number of values of the u8 that counts the dimensions
U8Values == 256

-----------------------------------------------------------------------------
(* field.rs: the field-descriptor parser.  A position is the 0-based index *)
(* the character iterator yields next; source[a..b] is Slice(source, a, b) *)

CharAt(source, i) == source[i + 1]
Slice(source, a, b) == SubSeq(source, a + 1, b)

\* FieldDescriptor: the primitive variants, and Reference(ClassRef)
Primitive(kind) == [kind |-> kind, class |-> NoSuper]
Reference(class_ref) == [kind |-> "Reference", class |-> class_ref]

\* the match of parse_field_descriptor_index on the first character
PrimitiveOf(c) ==
    CASE c = "B" -> "Byte"
      [] c = "C" -> "Character"
      [] c = "D" -> "Double"
      [] c = "F" -> "Float"
      [] c = "I" -> "Integer"
      [] c = "J" -> "Long"
      [] c = "S" -> "Short"
      [] c = "Z" -> "Boolean"
      [] OTHER -> "Illegal"

\* a parse that panicked (unwrap on None, or the illegal-character panic)
ParsePanic == [ok |-> FALSE, desc |-> Primitive("Illegal"), last |-> 0]
Parsed(desc, last_index) == [ok |-> TRUE, desc |-> desc, last |-> last_index]

\* the index of the first ';' at or after i, or -1 when the iterator runs out
ScanSemicolon(source, i) ==
    LET hits == {j \in i..(Len(source) - 1) : CharAt(source, j) = ";"}
    IN  IF hits = {} THEN -1
        ELSE CHOOSE j \in hits : \A k \in hits : j <= k

\* the index of the first character at or after i that is not '[' (the
\* length of the source when there is none)
SkipBrackets(source, i) ==
    LET stops == {j \in i..(Len(source) - 1) : CharAt(source, j) # "["}
    IN  IF stops = {} THEN (IF i > Len(source) THEN i ELSE Len(source))
        ELSE CHOOSE j \in stops : \A k \in stops : j <= k

parse_field_descriptor_reference(source, pos) ==
    LET second_index == pos + 1
        last_index == ScanSemicolon(source, second_index)
    IN  IF last_index < 0 THEN ParsePanic
        ELSE Parsed(Reference(Symbolic(Slice(source, second_index, last_index))),
                    last_index)

RECURSIVE parse_field_descriptor_index(_, _)

parse_field_descriptor_array(source, pos) ==
    LET first_index == pos
        next == SkipBrackets(source, pos)
        component == parse_field_descriptor_index(source, next)
        last_index == component.last + 1
    IN  IF ~component.ok THEN ParsePanic
        ELSE Parsed(Reference(Symbolic(Slice(source, first_index, last_index))),
                    last_index)

parse_field_descriptor_index(source, pos) ==
    IF pos >= Len(source) THEN ParsePanic
    ELSE LET first_char == CharAt(source, pos) IN
         IF first_char = "L" THEN parse_field_descriptor_reference(source, pos)
         ELSE IF first_char = "[" THEN parse_field_descriptor_array(source, pos)
         ELSE IF PrimitiveOf(first_char) = "Illegal" THEN ParsePanic
         ELSE Parsed(Primitive(PrimitiveOf(first_char)), pos)

parse_field_descriptor(source) == parse_field_descriptor_index(source, 0)

-----------------------------------------------------------------------------
(* class_array.rs *)

\* ClassArray::new
ClassArrayNew(dimensions, component_type, class_name) ==
    [kind |-> "Array",
     name |-> class_name,
     access_flags |-> {"ACC_PUBLIC"},
     super_class |-> NoSuper,
     dimensions |-> dimensions,
     component_type |-> component_type,
     interfaces |-> <<>>, fields |-> <<>>, methods |-> <<>>]

-----------------------------------------------------------------------------
(* class_file.rs: a class-path entry carries what the decoder reads from   *)
(* its bytes: the major version, whether the stream ends early, the        *)
(* this_class, super_class and access_flags items, the interfaces and the  *)
(* descriptors of the fields and of the methods                            *)

Absent == [exists |-> FALSE, major_version |-> 0, truncated |-> FALSE,
           this_class |-> <<>>, super_class |-> NoSuper, access_flags |-> {},
           interfaces |-> <<>>, fields |-> <<>>, methods |-> <<>>]

\* a class file without interfaces, fields and methods
Entry(major, truncated, this_class, super_class, access_flags) ==
    [exists |-> TRUE, major_version |-> major, truncated |-> truncated,
     this_class |-> this_class, super_class |-> super_class,
     access_flags |-> access_flags,
     interfaces |-> <<>>, fields |-> <<>>, methods |-> <<>>]

\* a class file with interfaces, fields and methods
Declaring(entry, interfaces, fields, methods) ==
    [entry EXCEPT !.interfaces = interfaces, !.fields = fields, !.methods = methods]

NoClass == [kind |-> "None", name |-> <<>>, access_flags |-> {},
            super_class |-> NoSuper, dimensions |-> 0,
            component_type |-> Primitive("Illegal"),
            interfaces |-> <<>>, fields |-> <<>>, methods |-> <<>>]

\* ClassFile::new: Err(UnsupportedClassVersionError) above CURRENT_VERSION,
\* Err(ClassFormatError) on UnexpectedEof, else the decoded class
ClassFileNew(bytes) ==
    IF unsupported(bytes.major_version)
    THEN [err |-> "UnsupportedClassVersionError", class |-> NoClass]
    ELSE IF bytes.truncated
    THEN [err |-> "ClassFormatError", class |-> NoClass]
    ELSE [err |-> "None",
          class |-> [kind |-> "File",
                     name |-> bytes.this_class,
                     access_flags |-> bytes.access_flags,
                     super_class |-> bytes.super_class,
                     dimensions |-> 0,
                     component_type |-> Primitive("Illegal"),
                     interfaces |-> bytes.interfaces,
                     fields |-> bytes.fields,
                     methods |-> bytes.methods]]

\* a defective variant: the first interface is taken for the super class
get_super_class_or_interface(class) ==
    IF class.interfaces # <<>> THEN class.interfaces[1] ELSE class.super_class

\* ClassFile::get_super_class
get_super_class(class) == class.super_class

\* a defective variant: no class is taken to declare a super class
has_super_class_never(class) == class.super_class.tag = "Static"

\* ClassFile::has_super_class
has_super_class(class) == class.super_class.tag # "None"

-----------------------------------------------------------------------------
(* class.rs: ClassRef *)

\* ClassRef::Static: a reference to a class of the arena
Static(class_ref) == [tag |-> "Static", class |-> class_ref]

\* ClassRef::get: the class of a Static reference, a panic otherwise
get(self) ==
    IF self.tag = "Static" THEN [ok |-> TRUE, class |-> self.class]
    ELSE [ok |-> FALSE, class |-> 0]

\* a defective variant: the resolver's answer is returned but not stored
resolve_without_store(self, answer) ==
    IF self.tag = "Symbolic"
    THEN [self |-> self, called |-> <<self.name>>, returned |-> answer]
    ELSE [self |-> self, called |-> <<>>, returned |-> self.class]

\* ClassRef::resolve; answer is what resolver.resolve returns if it is
\* called, called lists the names it was called with
resolve(self, answer) ==
    IF self.tag = "Symbolic"
    THEN LET promoted == Static(answer)
         IN  [self |-> promoted, called |-> <<self.name>>,
              returned |-> get(promoted).class]
    ELSE [self |-> self, called |-> <<>>, returned |-> self.class]

-----------------------------------------------------------------------------
(* class_loader.rs *)

\* a defective variant: every root is asked and the last hit is kept
RECURSIVE search_roots_last_hit(_, _, _)
search_roots_last_hit(roots, class_name, i) ==
    IF i > Len(roots)
    THEN [ok |-> FALSE, bytes |-> Absent, consulted |-> <<>>]
    ELSE LET rest == search_roots_last_hit(roots, class_name, i + 1)
             asked == [rest EXCEPT !.consulted = <<i>> \o @]
         IN  IF rest.ok \/ ~(class_name \in DOMAIN roots[i] /\ roots[i][class_name].exists)
             THEN asked
             ELSE [asked EXCEPT !.ok = TRUE, !.bytes = roots[i][class_name]]

\* ClassLoader::search_classpath, the loop of lines 172-188 from root i on:
\* the first root that holds <class_name>.class ends it with Ok(bytes), the
\* end of the list with Err(NoClassDefFoundError); consulted lists the
\* roots asked, in the order they were asked
RECURSIVE search_roots(_, _, _)
search_roots(roots, class_name, i) ==
    IF i > Len(roots)
    THEN [ok |-> FALSE, bytes |-> Absent, consulted |-> <<>>]
    ELSE IF class_name \in DOMAIN roots[i] /\ roots[i][class_name].exists
    THEN [ok |-> TRUE, bytes |-> roots[i][class_name], consulted |-> <<i>>]
    ELSE LET rest == search_roots(roots, class_name, i + 1)
         IN  [rest EXCEPT !.consulted = <<i>> \o @]

search_classpath(roots, class_name) == search_roots(roots, class_name, 1)

\* the record a top-level call threads through its recursion: the loader's
\* table and arena, the inheritance_stack of the call, the value being
\* returned (fault: the Err of load_file_class; class: its Ok; handle: the
\* reference create_class_rec returns; panic: the panic unwinding, if any)
\* and a log of the lookups (searches: what each one asked and got), decodes
\* and create_class_rec calls made
NewCall(map, arena, stack) ==
    [class_map |-> map, classes |-> arena, inheritance_stack |-> stack,
     fault |-> "None", panic |-> "None", class |-> NoClass, handle |-> 0,
     lookups |-> <<>>, searches |-> <<>>, decodes |-> <<>>, calls |-> <<>>,
     depth |-> 0]

Err(st, fault) == [st EXCEPT !.fault = fault]
Panic(st, why) == [st EXCEPT !.panic = why]

\* ClassLoader::register_class
register_class(st, class_name, class) ==
    LET arena == Append(st.classes, class)
        class_ref == Len(arena)
    IN  [st EXCEPT !.classes = arena,
                   !.class_map = [n \in DOMAIN st.class_map \cup {class_name} |->
                                    IF n = class_name THEN class_ref
                                    ELSE st.class_map[n]],
                   !.handle = class_ref]

\* ClassLoader::get_class
get_class(map, class_name) == map[class_name]

\* a defective variant: the table is asked for the file name instead of the class name
already_loaded_file_name(map, class_name) ==
    (class_name \o <<".", "c", "l", "a", "s", "s">>) \in DOMAIN map

\* a defective variant: an array class is never taken from the table
already_loaded_no_arrays(map, class_name) ==
    class_name \in DOMAIN map /\ (class_name = <<>> \/ class_name[1] # "[")

\* create_class_rec, line 71
already_loaded(map, class_name) == class_name \in DOMAIN map

\* a defective variant: one set is kept in the loader and reused by every request
stale_inheritance_stack == last_call.inheritance_stack

\* the set create_class hands to create_class_rec
new_inheritance_stack == {}

\* a defective variant: the loop also counts the character that ends it
count_dimensions_one_more(class_name, overflow_checks) ==
    LET n == SkipBrackets(class_name, 0) + 1 IN
    IF n >= U8Values /\ overflow_checks
    THEN [ok |-> FALSE, dimensions |-> 0]
    ELSE [ok |-> TRUE, dimensions |-> n % U8Values]

\* load_array_class, lines 100-104: the u8 count of the leading '['; with
\* overflow checks the 256th increment panics, without them it wraps
count_dimensions(class_name, overflow_checks) ==
    LET n == SkipBrackets(class_name, 0) IN
    IF n >= U8Values /\ overflow_checks
    THEN [ok |-> FALSE, dimensions |-> 0]
    ELSE [ok |-> TRUE, dimensions |-> n % U8Values]

\* ClassLoader::load_array_class
load_array_class(st, class_name, overflow_checks) ==
    LET counted == count_dimensions(class_name, overflow_checks)
        dimensions == counted.dimensions
        component_type_str == Slice(class_name, dimensions, Len(class_name))
        component_type == parse_field_descriptor(component_type_str)
    IN  IF ~counted.ok THEN Panic(st, "overflow")
        ELSE IF ~component_type.ok THEN Panic(st, "descriptor")
        ELSE [st EXCEPT !.class =
                 ClassArrayNew(dimensions, component_type.desc, class_name)]

\* a defective variant: the checks without the comparison of the two names
structural_checks_any_name(map, inheritance_stack, class_name, class) ==
    IF class.name \in DOMAIN map THEN "LinkageError"
    ELSE IF class_name \in inheritance_stack THEN "ClassCircularityError"
    ELSE "None"

\* a defective variant: the checks without the test of the inheritance stack
structural_checks_no_cycle(map, inheritance_stack, class_name, class) ==
    IF class.name \in DOMAIN map THEN "LinkageError"
    ELSE IF class_name # class.name THEN "NoClassDefFoundError"
    ELSE "None"

\* a defective variant: the name check before the redefinition check
structural_checks_name_first(map, inheritance_stack, class_name, class) ==
    IF class_name # class.name THEN "NoClassDefFoundError"
    ELSE IF class.name \in DOMAIN map THEN "LinkageError"
    ELSE IF class_name \in inheritance_stack THEN "ClassCircularityError"
    ELSE "None"

\* load_file_class, lines 118-131: the checks on the decoded class
structural_checks(map, inheritance_stack, class_name, class) ==
    IF class.name \in DOMAIN map THEN "LinkageError"
    ELSE IF class_name # class.name THEN "NoClassDefFoundError"
    ELSE IF class_name \in inheritance_stack THEN "ClassCircularityError"
    ELSE "None"

\* a defective variant: the root type is compared in its source-code spelling
root_check_dotted(class) ==
    IF class.name = <<"j","a","v","a",".","l","a","n","g",".","O","b","j","e","c","t">>
    THEN "None" ELSE "ClassFormatError"

\* load_file_class, lines 134-140: a class without a super class
root_check(class) ==
    IF class.name = ObjectName THEN "None" ELSE "ClassFormatError"

\* a defective variant: the flag is never found
is_interface_never(super_class) == "ACC_INTERFACE" \in {}

\* load_file_class, line 156
is_interface(super_class) == "ACC_INTERFACE" \in super_class.access_flags

\* a defective variant: the Err is dropped and the load goes on
unwrap_ignoring(st) == st

\* load_class, line 90: the unwrap of load_file_class's result
unwrap(st) == IF st.fault # "None" THEN Panic(st, "unwrap") ELSE st

RECURSIVE create_class_rec(_, _, _, _)
RECURSIVE load_class(_, _, _, _)
RECURSIVE load_file_class(_, _, _, _)

\* ClassLoader::load_file_class; fuel is the room left on the call stack
load_file_class(st, class_name, overflow_checks, fuel) ==
    LET found == search_classpath(classpath, class_name)
        s1 == [st EXCEPT !.lookups = Append(@, class_name),
                         !.searches = Append(@, [name |-> class_name,
                                                 ok |-> found.ok,
                                                 bytes |-> found.bytes,
                                                 consulted |-> found.consulted])]
        decoded == ClassFileNew(found.bytes)
        s2 == [s1 EXCEPT !.decodes = Append(@, class_name)]
        class == decoded.class
        checked == structural_checks(s2.class_map, s2.inheritance_stack,
                                     class_name, class)
        s3 == [s2 EXCEPT !.inheritance_stack = @ \cup {class.name}]
        s4 == create_class_rec(s3, get_super_class(class).name, overflow_checks,
                               fuel - 1)
    IN  IF ~found.ok THEN Err(s1, "NoClassDefFoundError")
        ELSE IF decoded.err # "None" THEN Err(s2, decoded.err)
        ELSE IF checked # "None" THEN Err(s2, checked)
        ELSE IF ~has_super_class(class)
        THEN IF root_check(class) = "None" THEN [s2 EXCEPT !.class = class]
             ELSE Err(s2, root_check(class))
        ELSE IF s4.panic # "None" THEN s4
        ELSE IF is_interface(s4.classes[s4.handle])
        THEN Err(s4, "IncompatibleClassChangeError")
        ELSE [s4 EXCEPT !.class = class]

\* ClassLoader::load_class
load_class(st, class_name, overflow_checks, fuel) ==
    IF Len(class_name) > 0 /\ class_name[1] = "["
    THEN load_array_class(st, class_name, overflow_checks)
    ELSE LET r == load_file_class(st, class_name, overflow_checks, fuel)
         IN  IF r.panic # "None" THEN r ELSE unwrap(r)

\* ClassLoader::create_class_rec; a call with no room left on the call stack
\* ends the process
create_class_rec(st, class_name, overflow_checks, fuel) ==
    IF fuel <= 0 THEN Panic(st, "stack overflow")
    ELSE LET s0 == [st EXCEPT !.calls = Append(@, class_name),
                              !.depth = IF MaxDepth - fuel + 1 > @
                                        THEN MaxDepth - fuel + 1 ELSE @]
         IN  IF ~already_loaded(s0.class_map, class_name)
             THEN LET s1 == load_class(s0, class_name, overflow_checks, fuel)
                  IN  IF s1.panic # "None" THEN s1
                      ELSE register_class(s1, class_name, s1.class)
             ELSE [s0 EXCEPT !.handle = get_class(s0.class_map, class_name)]

-----------------------------------------------------------------------------
(* The decoder, byte by byte.  input is the whole stream, a sequence of     *)
(* bytes; pos is the number of bytes the cursor has consumed.  Every read   *)
(* returns a record: status "Ok" with the value read and the new pos, or    *)
(* the ClassLoadingError the ? operator hands up, or "Panic".               *)

Done(value, pos) == [status |-> "Ok", value |-> value, pos |-> pos, why |-> ""]
Failed(status, why, pos) == [status |-> status, value |-> <<>>, pos |-> pos, why |-> why]

\* From<std::io::Error> for ClassLoadingError: UnexpectedEof becomes
\* ClassFormatError (a Cursor gives no other error)
UnexpectedEof(input) ==
    Failed("ClassFormatError", "Parsing reached end of Class File", Len(input))

\* panic!, expect and unwrap on None or Err
panic(why, pos) == Failed("Panic", why, pos)

\* Read::read_exact on the cursor
read_exact(input, pos, n) ==
    IF pos + n > Len(input) THEN UnexpectedEof(input)
    ELSE Done(SubSeq(input, pos + 1, pos + n), pos + n)

\* ReadBytesExt::read_u8, read_u16::<BigEndian>, read_u32::<BigEndian>; the
\* streams of the model keep every u32 below 2^31
read_u8(input, pos) ==
    LET r == read_exact(input, pos, 1)
    IN  IF r.status # "Ok" THEN r ELSE Done(r.value[1], r.pos)

read_u16(input, pos) ==
    LET r == read_exact(input, pos, 2)
    IN  IF r.status # "Ok" THEN r
        ELSE Done(r.value[1] * U8Values + r.value[2], r.pos)

read_u32(input, pos) ==
    LET r == read_exact(input, pos, 4)
    IN  IF r.status # "Ok" THEN r
        ELSE Done(((r.value[1] * U8Values + r.value[2]) * U8Values + r.value[3])
                      * U8Values + r.value[4], r.pos)

\* Ok(value) at the position of a read that returned Ok, or that read's Err
Then(read, value) == IF read.status # "Ok" THEN read ELSE Done(value, read.pos)

\* a list gets its first element: the Err of the rest, or the whole list
Push(first, rest) == IF rest.status # "Ok" THEN rest
                     ELSE Done(<<first>> \o rest.value, rest.pos)

\* k consecutive read_u16::<BigEndian>()? with nothing between them
RECURSIVE read_u16s(_, _, _)
read_u16s_after(input, k, r) ==
    IF r.status # "Ok" THEN r ELSE Push(r.value, read_u16s(input, r.pos, k - 1))

read_u16s(input, pos, k) ==
    IF k = 0 THEN Done(<<>>, pos) ELSE read_u16s_after(input, k, read_u16(input, pos))

-----------------------------------------------------------------------------
(* constant_pool.rs *)

\* the characters of codes 32 to 95 and of codes 97 to 126
AsciiTo95 ==
    <<" ", "!", "\"", "#", "$", "%", "&", "'", "(", ")", "*", "+", ",", "-", ".", "/",
      "0", "1", "2", "3", "4", "5", "6", "7", "8", "9", ":", ";", "<", "=", ">", "?",
      "@", "A", "B", "C", "D", "E", "F", "G", "H", "I", "J", "K", "L", "M", "N", "O",
      "P", "Q", "R", "S", "T", "U", "V", "W", "X", "Y", "Z", "[", "\\", "]", "^", "_">>
AsciiFrom97 ==
    <<"a", "b", "c", "d", "e", "f", "g", "h", "i", "j", "k", "l", "m", "n", "o",
      "p", "q", "r", "s", "t", "u", "v", "w", "x", "y", "z", "{", "|", "}", "~">>

Printable == (32..95) \cup (97..126)
Chr(b) == IF b <= 95 THEN AsciiTo95[b - 31] ELSE AsciiFrom97[b - 96]

\* cesu8::from_java_cesu8: a printable ASCII byte is the character of the
\* same code; a byte from 0xF8 on belongs to no encoding and is an error.
\* The streams of the model hold no other byte in a CONSTANT_Utf8_info.
from_java_cesu8(bytes) ==
    CASE \A i \in DOMAIN bytes : bytes[i] \in Printable ->
             [ok |-> TRUE, string |-> [i \in DOMAIN bytes |-> Chr(bytes[i])]]
      [] \E i \in DOMAIN bytes : bytes[i] >= 248 ->
             [ok |-> FALSE, string |-> <<>>]

\* Option::None in the pool
Unused == [tag |-> "None"]

\* the variants of cp_info
CONSTANT_Class_info(name_index) == [tag |-> "Class", name_index |-> name_index]
CONSTANT_Fieldref_info(class_index, name_and_type_index) ==
    [tag |-> "Fieldref", class_index |-> class_index,
     name_and_type_index |-> name_and_type_index]
CONSTANT_Methodref_info(class_index, name_and_type_index) ==
    [tag |-> "Methodref", class_index |-> class_index,
     name_and_type_index |-> name_and_type_index]
CONSTANT_InterfaceMethodref_info(class_index, name_and_type_index) ==
    [tag |-> "InterfaceMethodref", class_index |-> class_index,
     name_and_type_index |-> name_and_type_index]
CONSTANT_String_info(string_index) == [tag |-> "String", string_index |-> string_index]
CONSTANT_Integer_info(bytes) == [tag |-> "Integer", bits |-> bytes]
CONSTANT_Float_info(bytes) == [tag |-> "Float", bits |-> bytes]
CONSTANT_Long_info(value) == [tag |-> "Long", bits |-> value]
CONSTANT_Double_info(value) == [tag |-> "Double", bits |-> value]
CONSTANT_NameAndType_info(name_index, descriptor_index) ==
    [tag |-> "NameAndType", name_index |-> name_index,
     descriptor_index |-> descriptor_index]
CONSTANT_Utf8_info(bytes) == [tag |-> "Utf8", text |-> bytes]

\* cp_info::new, the arm of CONSTANT_Utf8_info: length, bytes, from_java_cesu8
cp_info_utf8_string(pos, string) ==
    IF ~string.ok THEN panic("Error decoding Modified UTF8", pos)
    ELSE Done(CONSTANT_Utf8_info(string.string), pos)

cp_info_utf8_bytes(bytes) ==
    IF bytes.status # "Ok" THEN bytes
    ELSE cp_info_utf8_string(bytes.pos, from_java_cesu8(bytes.value))

cp_info_utf8(input, length) ==
    IF length.status # "Ok" THEN length
    ELSE cp_info_utf8_bytes(read_exact(input, length.pos, length.value))

\* cp_info::new, the arms that read their fields and build the variant; the
\* numeric constants keep the bytes read as their bits
cp_info_of(tag, read) ==
    IF read.status # "Ok" THEN read
    ELSE Done(CASE tag = 7 -> CONSTANT_Class_info(read.value)
                [] tag = 9 -> CONSTANT_Fieldref_info(read.value[1], read.value[2])
                [] tag = 10 -> CONSTANT_Methodref_info(read.value[1], read.value[2])
                [] tag = 11 -> CONSTANT_InterfaceMethodref_info(read.value[1], read.value[2])
                [] tag = 8 -> CONSTANT_String_info(read.value)
                [] tag = 3 -> CONSTANT_Integer_info(read.value)
                [] tag = 4 -> CONSTANT_Float_info(read.value)
                [] tag = 5 -> CONSTANT_Long_info(read.value)
                [] tag = 6 -> CONSTANT_Double_info(read.value)
                [] tag = 12 -> CONSTANT_NameAndType_info(read.value[1], read.value[2]),
              read.pos)

\* cp_info::new after its tag was read: the match on the tag
cp_info_tagged(input, tag) ==
    IF tag.status # "Ok" THEN tag
    ELSE CASE tag.value \in {7, 8} -> cp_info_of(tag.value, read_u16(input, tag.pos))
           [] tag.value \in {9, 10, 11, 12} ->
                  cp_info_of(tag.value, read_u16s(input, tag.pos, 2))
           [] tag.value \in {3, 4} -> cp_info_of(tag.value, read_exact(input, tag.pos, 4))
           [] tag.value \in {5, 6} -> cp_info_of(tag.value, read_exact(input, tag.pos, 8))
           [] tag.value = 1 -> cp_info_utf8(input, read_u16(input, tag.pos))
           [] OTHER -> panic("Unknown Constant Pool Tag parsed", tag.pos)

\* cp_info::new
cp_info_new(input, pos) == cp_info_tagged(input, read_u8(input, pos))

U16Values == 65536

\* a defective variant: an 8-byte constant takes one slot like any other
RECURSIVE read_pool_entries_one_slot(_, _, _, _, _)
push_one_slot(input, iter, pool, overflow_checks, info) ==
    IF info.status # "Ok" THEN info
    ELSE read_pool_entries_one_slot(input, info.pos, iter - 1,
                                    Append(pool, info.value), overflow_checks)

read_pool_entries_one_slot(input, pos, iter, pool, overflow_checks) ==
    IF iter = 0 THEN Done(pool, pos)
    ELSE push_one_slot(input, iter, pool, overflow_checks, cp_info_new(input, pos))

\* read_constant_pool, the body of the loop (lines 103-113) once info was
\* decoded; iter is a u16: with overflow checks a subtraction below zero
\* panics, without them it wraps
RECURSIVE read_pool_entries(_, _, _, _, _)
push_info(input, iter, pool, overflow_checks, info) ==
    IF info.status # "Ok" THEN info
    ELSE IF info.value.tag \in {"Double", "Long"}
    THEN IF iter < 2 /\ overflow_checks
         THEN panic("attempt to subtract with overflow", info.pos)
         ELSE read_pool_entries(input, info.pos, (iter - 2) % U16Values,
                                pool \o <<info.value, Unused>>, overflow_checks)
    ELSE read_pool_entries(input, info.pos, iter - 1,
                           Append(pool, info.value), overflow_checks)

\* read_constant_pool, the loop of lines 102-115
read_pool_entries(input, pos, iter, pool, overflow_checks) ==
    IF iter = 0 THEN Done(pool, pos)
    ELSE push_info(input, iter, pool, overflow_checks, cp_info_new(input, pos))

\* read_constant_pool
read_constant_pool(input, pos, constant_pool_count, overflow_checks) ==
    IF constant_pool_count < 1 /\ overflow_checks
    THEN panic("attempt to subtract with overflow", pos)
    ELSE read_pool_entries(input, pos, (constant_pool_count - 1) % U16Values,
                           <<Unused>>, overflow_checks)

\* the result of a lookup in the pool
Found(value) == [ok |-> TRUE, value |-> value]
LookupPanic == [ok |-> FALSE, value |-> Unused]

\* ConstantPool::get_entry: Vec::index panics past the end, unwrap on None
get_entry(pool, index) ==
    IF index >= Len(pool) THEN LookupPanic
    ELSE IF pool[index + 1] = Unused THEN LookupPanic
    ELSE Found(pool[index + 1])

\* ConstantPool::get_string_entry
get_string_entry(pool, index) ==
    LET entry == get_entry(pool, index)
    IN  IF ~entry.ok THEN LookupPanic
        ELSE IF entry.value.tag = "Utf8" THEN Found(entry.value.text)
        ELSE LookupPanic

-----------------------------------------------------------------------------
(* attribute.rs *)

\* verification_type_info: its tag, its variant and the index or offset
\* the variants Object and Uninitialized carry (0 in the others)
variable_info(tag, data, index) == [tag |-> tag, data |-> data, index |-> index]

variable_info_indexed(tag, data, index) ==
    Then(index, variable_info(tag, data, index.value))

\* verification_type_info::new after its tag was read: the match on the tag
verification_type_info_tagged(input, tag) ==
    IF tag.status # "Ok" THEN tag
    ELSE CASE tag.value = 0 -> Done(variable_info(0, "Top_variable_info", 0), tag.pos)
           [] tag.value = 1 -> Done(variable_info(1, "Integer_variable_info", 0), tag.pos)
           [] tag.value = 2 -> Done(variable_info(2, "Float_variable_info", 0), tag.pos)
           [] tag.value = 4 -> Done(variable_info(4, "Long_variable_info", 0), tag.pos)
           [] tag.value = 3 -> Done(variable_info(3, "Double_variable_info", 0), tag.pos)
           [] tag.value = 5 -> Done(variable_info(5, "Null_variable_info", 0), tag.pos)
           [] tag.value = 6 ->
                  Done(variable_info(6, "UninitializedThis_variable_info", 0), tag.pos)
           [] tag.value = 7 ->
                  variable_info_indexed(7, "Object_variable_info",
                                        read_u16(input, tag.pos))
           [] tag.value = 8 ->
                  variable_info_indexed(8, "Uninitialized_variable_info",
                                        read_u16(input, tag.pos))
           [] OTHER -> panic("Unsupported verification_type_info#tag parsed", tag.pos)

\* verification_type_info::new
verification_type_info_new(input, pos) ==
    verification_type_info_tagged(input, read_u8(input, pos))

\* for _ in 0..n { push(verification_type_info::new(input)?) }
RECURSIVE verification_types(_, _, _)
verification_types_after(input, n, first) ==
    IF first.status # "Ok" THEN first
    ELSE Push(first.value, verification_types(input, first.pos, n - 1))

verification_types(input, pos, n) ==
    IF n = 0 THEN Done(<<>>, pos)
    ELSE verification_types_after(input, n, verification_type_info_new(input, pos))

\* a count that was read, and that many verification_type_info
verification_type_list(input, count) ==
    IF count.status # "Ok" THEN count
    ELSE verification_types(input, count.pos, count.value)

\* a frame: the fields a variant lacks are 0 or empty
Frame(frame_type, frame_data, offset_delta, locals, stack) ==
    [frame_type |-> frame_type, frame_data |-> frame_data,
     offset_delta |-> offset_delta, locals |-> locals, stack |-> stack]

\* the frames that end with one stack item, and with appended locals
frame_of_item(frame_type, frame_data, offset_delta, stack) ==
    Then(stack, Frame(frame_type, frame_data, offset_delta, <<>>, <<stack.value>>))

frame_of_locals(frame_type, offset_delta, locals) ==
    Then(locals, Frame(frame_type, "append_frame", offset_delta, locals.value, <<>>))

\* full_frame: both loops push into locals (lines 301 and 306) and stack
\* stays empty; the two counts are kept as they were read
full_frame_stack(offset_delta, locals, stack_items) ==
    Then(stack_items,
         Frame(255, "full_frame", offset_delta, locals \o stack_items.value, <<>>)
         @@ [number_of_locals |-> Len(locals),
             number_of_stack_items |-> Len(stack_items.value)])

full_frame(input, offset_delta, locals) ==
    IF locals.status # "Ok" THEN locals
    ELSE full_frame_stack(offset_delta, locals.value,
                          verification_type_list(input, read_u16(input, locals.pos)))

\* stack_map_frame::new, the arms that begin with offset_delta
stack_map_frame_delta(input, frame_type, offset_delta) ==
    IF offset_delta.status # "Ok" THEN offset_delta
    ELSE CASE frame_type = 247 ->
                  frame_of_item(frame_type, "same_locals_1_stack_item_frame_extended",
                                offset_delta.value,
                                verification_type_info_new(input, offset_delta.pos))
           [] frame_type \in 248..250 ->
                  Done(Frame(frame_type, "chop_frame", offset_delta.value, <<>>, <<>>),
                       offset_delta.pos)
           [] frame_type = 251 ->
                  Done(Frame(frame_type, "same_frame_extended", offset_delta.value,
                             <<>>, <<>>), offset_delta.pos)
           [] frame_type \in 252..254 ->
                  frame_of_locals(frame_type, offset_delta.value,
                                  verification_types(input, offset_delta.pos,
                                                     frame_type - 251))
           [] frame_type = 255 ->
                  full_frame(input, offset_delta.value,
                             verification_type_list(input,
                                                    read_u16(input, offset_delta.pos)))

\* stack_map_frame::new after frame_type was read: the match on it
stack_map_frame_typed(input, frame_type) ==
    IF frame_type.status # "Ok" THEN frame_type
    ELSE CASE frame_type.value \in 0..63 ->
                  Done(Frame(frame_type.value, "same_frame", 0, <<>>, <<>>),
                       frame_type.pos)
           [] frame_type.value \in 64..127 ->
                  frame_of_item(frame_type.value, "same_locals_1_stack_item_frame", 0,
                                verification_type_info_new(input, frame_type.pos))
           [] frame_type.value \in 247..255 ->
                  stack_map_frame_delta(input, frame_type.value,
                                        read_u16(input, frame_type.pos))
           [] OTHER ->
                  panic("Parsed stack_map_frame#frame_type reserved for future use",
                        frame_type.pos)

\* stack_map_frame::new
stack_map_frame_new(input, pos) == stack_map_frame_typed(input, read_u8(input, pos))

\* for _ in 0..n { entries.push(stack_map_frame::new(input)?) }
RECURSIVE stack_map_frames(_, _, _)
stack_map_frames_after(input, n, first) ==
    IF first.status # "Ok" THEN first
    ELSE Push(first.value, stack_map_frames(input, first.pos, n - 1))

stack_map_frames(input, pos, n) ==
    IF n = 0 THEN Done(<<>>, pos)
    ELSE stack_map_frames_after(input, n, stack_map_frame_new(input, pos))

\* the tags of element_value that carry one constant-pool index
ConstValueTags == {"B", "C", "D", "F", "I", "J", "S", "Z", "s"}

RECURSIVE element_value_new(_, _)
RECURSIVE element_values(_, _, _)
RECURSIVE annotation_new(_, _)
RECURSIVE element_value_pairs(_, _, _)

\* element_value: its tag, its variant and what the variant carries
element_value_single(tag, value, read) ==
    Then(read, [tag |-> tag, value |-> value, data |-> <<read.value>>])

element_value_many(tag, value, read) ==
    Then(read, [tag |-> tag, value |-> value, data |-> read.value])

\* a count that was read, and that many element_value
element_value_list(input, count) ==
    IF count.status # "Ok" THEN count
    ELSE element_values(input, count.pos, count.value)

\* element_value::new, the match on the tag as a character
element_value_of(input, tag, c) ==
    CASE c \in ConstValueTags ->
             element_value_single(tag.value, "const_value_index",
                                  read_u16(input, tag.pos))
      [] c = "e" ->
             element_value_many(tag.value, "enum_const_value",
                                read_u16s(input, tag.pos, 2))
      [] c = "c" ->
             element_value_single(tag.value, "class_info_index",
                                  read_u16(input, tag.pos))
      [] c = "@" ->
             element_value_single(tag.value, "annotation_value",
                                  annotation_new(input, tag.pos))
      [] c = "[" ->
             element_value_many(tag.value, "array_value",
                                element_value_list(input, read_u16(input, tag.pos)))
      [] OTHER -> panic("Parsed illegal element_value#tag", tag.pos)

element_value_tagged(input, tag) ==
    IF tag.status # "Ok" THEN tag
    ELSE element_value_of(input, tag,
                          IF tag.value \in Printable THEN Chr(tag.value) ELSE "")

\* element_value::new
element_value_new(input, pos) == element_value_tagged(input, read_u8(input, pos))

\* for _ in 0..n { values.push(element_value::new(input)?) }
element_values_after(input, n, first) ==
    IF first.status # "Ok" THEN first
    ELSE Push(first.value, element_values(input, first.pos, n - 1))

element_values(input, pos, n) ==
    IF n = 0 THEN Done(<<>>, pos)
    ELSE element_values_after(input, n, element_value_new(input, pos))

\* annotation::new, the loop of lines 154-158
element_value_pair_valued(input, n, element_name_index, value) ==
    IF value.status # "Ok" THEN value
    ELSE Push([element_name_index |-> element_name_index, value |-> value.value],
              element_value_pairs(input, value.pos, n - 1))

element_value_pair_named(input, n, element_name_index) ==
    IF element_name_index.status # "Ok" THEN element_name_index
    ELSE element_value_pair_valued(input, n, element_name_index.value,
                                   element_value_new(input, element_name_index.pos))

element_value_pairs(input, pos, n) ==
    IF n = 0 THEN Done(<<>>, pos)
    ELSE element_value_pair_named(input, n, read_u16(input, pos))

\* annotation::new
annotation_of(head, pairs) ==
    Then(pairs, [type_index |-> head[1], num_element_value_pairs |-> head[2],
                 element_value_pairs |-> pairs.value])

annotation_headed(input, head) ==
    IF head.status # "Ok" THEN head
    ELSE annotation_of(head.value, element_value_pairs(input, head.pos, head.value[2]))

annotation_new(input, pos) == annotation_headed(input, read_u16s(input, pos, 2))

\* for _ in 0..n { annotations.push(annotation::new(input)?) }
RECURSIVE annotations(_, _, _)
annotations_after(input, n, first) ==
    IF first.status # "Ok" THEN first
    ELSE Push(first.value, annotations(input, first.pos, n - 1))

annotations(input, pos, n) ==
    IF n = 0 THEN Done(<<>>, pos)
    ELSE annotations_after(input, n, annotation_new(input, pos))

\* a u16 count and that many annotations
annotations_counted(input, num_annotations) ==
    IF num_annotations.status # "Ok" THEN num_annotations
    ELSE annotations(input, num_annotations.pos, num_annotations.value)

annotation_list(input, pos) == annotations_counted(input, read_u16(input, pos))

\* parse_info, lines 602-609: for _ in 0..num_parameters { an annotation list }
RECURSIVE parameter_annotations(_, _, _)
parameter_annotations_after(input, n, first) ==
    IF first.status # "Ok" THEN first
    ELSE Push(first.value, parameter_annotations(input, first.pos, n - 1))

parameter_annotations(input, pos, n) ==
    IF n = 0 THEN Done(<<>>, pos)
    ELSE parameter_annotations_after(input, n, annotation_list(input, pos))

\* n rows of width u16 each, read one after the other
RECURSIVE rows(_, _, _, _)
rows_after(input, n, width, first) ==
    IF first.status # "Ok" THEN first
    ELSE Push(first.value, rows(input, first.pos, n - 1, width))

rows(input, pos, n, width) ==
    IF n = 0 THEN Done(<<>>, pos)
    ELSE rows_after(input, n, width, read_u16s(input, pos, width))

\* a u16 count and that many rows of width u16 each
rows_counted(input, length, width) ==
    IF length.status # "Ok" THEN length
    ELSE rows(input, length.pos, length.value, width)

table(input, pos, width) == rows_counted(input, read_u16(input, pos), width)

\* parse_info, lines 632-644: the bootstrap methods
RECURSIVE bootstrap_methods(_, _, _)
bootstrap_method_of(input, n, bootstrap_method_ref, bootstrap_arguments) ==
    IF bootstrap_arguments.status # "Ok" THEN bootstrap_arguments
    ELSE Push([bootstrap_method_ref |-> bootstrap_method_ref,
               bootstrap_arguments |-> bootstrap_arguments.value],
              bootstrap_methods(input, bootstrap_arguments.pos, n - 1))

bootstrap_method_headed(input, n, head) ==
    IF head.status # "Ok" THEN head
    ELSE bootstrap_method_of(input, n, head.value[1],
                             read_u16s(input, head.pos, head.value[2]))

bootstrap_methods(input, pos, n) ==
    IF n = 0 THEN Done(<<>>, pos)
    ELSE bootstrap_method_headed(input, n, read_u16s(input, pos, 2))

\* the attribute names parse_info knows
Name_ConstantValue == <<"C", "o", "n", "s", "t", "a", "n", "t", "V", "a", "l", "u", "e">>
Name_Code == <<"C", "o", "d", "e">>
Name_StackMapTable == <<"S", "t", "a", "c", "k", "M", "a", "p", "T", "a", "b", "l", "e">>
Name_Exceptions == <<"E", "x", "c", "e", "p", "t", "i", "o", "n", "s">>
Name_InnerClasses == <<"I", "n", "n", "e", "r", "C", "l", "a", "s", "s", "e", "s">>
Name_EnclosingMethod ==
    <<"E", "n", "c", "l", "o", "s", "i",
      "n", "g", "M", "e", "t", "h", "o", "d">>
Name_Synthetic == <<"S", "y", "n", "t", "h", "e", "t", "i", "c">>
Name_Signature == <<"S", "i", "g", "n", "a", "t", "u", "r", "e">>
Name_SourceFile == <<"S", "o", "u", "r", "c", "e", "F", "i", "l", "e">>
Name_SourceDebugExtension ==
    <<"S", "o", "u", "r", "c", "e", "D", "e", "b", "u",
      "g", "E", "x", "t", "e", "n", "s", "i", "o", "n">>
Name_LineNumberTable ==
    <<"L", "i", "n", "e", "N", "u", "m",
      "b", "e", "r", "T", "a", "b", "l", "e">>
Name_LocalVariableTable ==
    <<"L", "o", "c", "a", "l", "V", "a", "r", "i",
      "a", "b", "l", "e", "T", "a", "b", "l", "e">>
Name_LocalVariableTypeTable ==
    <<"L", "o", "c", "a", "l", "V", "a", "r", "i", "a", "b",
      "l", "e", "T", "y", "p", "e", "T", "a", "b", "l", "e">>
Name_Deprecated == <<"D", "e", "p", "r", "e", "c", "a", "t", "e", "d">>
Name_RuntimeVisibleAnnotations ==
    <<"R", "u", "n", "t", "i", "m", "e", "V", "i", "s", "i", "b",
      "l", "e", "A", "n", "n", "o", "t", "a", "t", "i", "o", "n", "s">>
Name_RuntimeInvisibleAnnotations ==
    <<"R", "u", "n", "t", "i", "m", "e", "I", "n", "v", "i", "s", "i",
      "b", "l", "e", "A", "n", "n", "o", "t", "a", "t", "i", "o", "n", "s">>
Name_RuntimeVisibleParameterAnnotations ==
    <<"R", "u", "n", "t", "i", "m", "e", "V", "i", "s", "i", "b", "l", "e", "P", "a", "r",
      "a", "m", "e", "t", "e", "r", "A", "n", "n", "o", "t", "a", "t", "i", "o", "n", "s">>
Name_RuntimeInvisibleParameterAnnotations ==
    <<"R", "u", "n", "t", "i", "m", "e", "I", "n", "v", "i", "s", "i", "b", "l", "e", "P", "a",
      "r", "a", "m", "e", "t", "e", "r", "A", "n", "n", "o", "t", "a", "t", "i", "o", "n", "s">>
Name_AnnotationDefault ==
    <<"A", "n", "n", "o", "t", "a", "t", "i",
      "o", "n", "D", "e", "f", "a", "u", "l", "t">>
Name_BootstrapMethods ==
    <<"B", "o", "o", "t", "s", "t", "r", "a",
      "p", "M", "e", "t", "h", "o", "d", "s">>

KnownAttributeNames ==
    {Name_ConstantValue,
     Name_Code,
     Name_StackMapTable,
     Name_Exceptions,
     Name_InnerClasses,
     Name_EnclosingMethod,
     Name_Synthetic,
     Name_Signature,
     Name_SourceFile,
     Name_SourceDebugExtension,
     Name_LineNumberTable,
     Name_LocalVariableTable,
     Name_LocalVariableTypeTable,
     Name_Deprecated,
     Name_RuntimeVisibleAnnotations,
     Name_RuntimeInvisibleAnnotations,
     Name_RuntimeVisibleParameterAnnotations,
     Name_RuntimeInvisibleParameterAnnotations,
     Name_AnnotationDefault,
     Name_BootstrapMethods}

\* the info of an attribute: its variant and what the variant carries
Info(kind, data) == [kind |-> kind, data |-> data]

\* the info whose data is what was read, or the one value that was read
info_of(kind, read) == Then(read, Info(kind, read.value))
info_of_one(kind, read) == Then(read, Info(kind, <<read.value>>))

\* counts that were read, and that many frames, annotation lists,
\* bootstrap methods
stack_map_frame_list(input, number_of_entries) ==
    IF number_of_entries.status # "Ok" THEN number_of_entries
    ELSE stack_map_frames(input, number_of_entries.pos, number_of_entries.value)

parameter_annotation_list(input, num_parameters) ==
    IF num_parameters.status # "Ok" THEN num_parameters
    ELSE parameter_annotations(input, num_parameters.pos, num_parameters.value)

bootstrap_method_list(input, num_bootstrap_methods) ==
    IF num_bootstrap_methods.status # "Ok" THEN num_bootstrap_methods
    ELSE bootstrap_methods(input, num_bootstrap_methods.pos, num_bootstrap_methods.value)

\* a defective variant: an attribute of no known name ends the decode
unknown_attribute_rejected(input, pos, attribute_length) ==
    Failed("ClassFormatError", "Unknown attribute", pos)

\* parse_info, lines 647-652: the attribute_length bytes that follow are
\* kept as they are
unknown_attribute(input, pos, attribute_length) ==
    info_of("Unknown_attribute", read_exact(input, pos, attribute_length))

RECURSIVE read_attributes(_, _, _, _)

\* parse_info, the arm of Code (lines 438-473), read after read: max_stack
\* and max_locals, code_length, code, the exception table, the attributes
Code_attribute(head, code, exception_table, attributes) ==
    Then(attributes,
         Info("Code_attribute",
              [max_stack |-> head[1], max_locals |-> head[2], code |-> code,
               exception_table |-> exception_table,
               attributes |-> attributes.value]))

Code_counted(input, constant_pool, head, code, exception_table, attributes_count) ==
    IF attributes_count.status # "Ok" THEN attributes_count
    ELSE Code_attribute(head, code, exception_table,
                        read_attributes(input, attributes_count.pos,
                                        attributes_count.value, constant_pool))

Code_tabled(input, constant_pool, head, code, exception_table) ==
    IF exception_table.status # "Ok" THEN exception_table
    ELSE Code_counted(input, constant_pool, head, code, exception_table.value,
                      read_u16(input, exception_table.pos))

Code_read(input, constant_pool, head, code) ==
    IF code.status # "Ok" THEN code
    ELSE Code_tabled(input, constant_pool, head, code.value, table(input, code.pos, 4))

Code_sized(input, constant_pool, head, code_length) ==
    IF code_length.status # "Ok" THEN code_length
    ELSE Code_read(input, constant_pool, head,
                   read_exact(input, code_length.pos, code_length.value))

Code_headed(input, constant_pool, head) ==
    IF head.status # "Ok" THEN head
    ELSE Code_sized(input, constant_pool, head.value, read_u32(input, head.pos))

\* attribute_info::parse_info
parse_info(input, pos, constant_pool, attribute_length, name) ==
    CASE name = Name_ConstantValue ->
             info_of_one("ConstantValue_attribute", read_u16(input, pos))
      [] name = Name_Code -> Code_headed(input, constant_pool, read_u16s(input, pos, 2))
      [] name = Name_StackMapTable ->
             info_of("StackMapTable_attribute",
                     stack_map_frame_list(input, read_u16(input, pos)))
      [] name = Name_Exceptions -> info_of("Exceptions_attribute", table(input, pos, 1))
      [] name = Name_InnerClasses ->
             info_of("InnerClasses_attribute", table(input, pos, 4))
      [] name = Name_EnclosingMethod ->
             info_of("EnclosingMethod_attribute", read_u16s(input, pos, 2))
      [] name = Name_Synthetic -> Done(Info("Synthetic_attribute", <<>>), pos)
      [] name = Name_Signature ->
             info_of_one("Signature_attribute", read_u16(input, pos))
      [] name = Name_SourceFile ->
             info_of_one("SourceFile_attribute", read_u16(input, pos))
      [] name = Name_SourceDebugExtension ->
             info_of("SourceDebugExtension", read_exact(input, pos, attribute_length))
      [] name = Name_LineNumberTable ->
             info_of("LineNumberTable_attribute", table(input, pos, 2))
      [] name = Name_LocalVariableTable ->
             info_of("LocalVariableTable_attribute", table(input, pos, 5))
      [] name = Name_LocalVariableTypeTable ->
             info_of("LocalVariableTypeTable_attribute", table(input, pos, 5))
      [] name = Name_Deprecated -> Done(Info("Deprecated_attribute", <<>>), pos)
      [] name = Name_RuntimeVisibleAnnotations ->
             info_of("RuntimeVisibleAnnotations_attribute", annotation_list(input, pos))
      [] name = Name_RuntimeInvisibleAnnotations ->
             info_of("RuntimeInvisibleAnnotations_attribute",
                     annotation_list(input, pos))
      [] name = Name_RuntimeVisibleParameterAnnotations ->
             info_of("RuntimeVisibleParameterAnnotations_attribute",
                     parameter_annotation_list(input, read_u8(input, pos)))
      [] name = Name_RuntimeInvisibleParameterAnnotations ->
             info_of("RuntimeInvisibleParameterAnnotations_attribute",
                     parameter_annotation_list(input, read_u8(input, pos)))
      [] name = Name_AnnotationDefault ->
             info_of_one("AnnotationDefault_attribute", element_value_new(input, pos))
      [] name = Name_BootstrapMethods ->
             info_of("BootstrapMethods_attribute",
                     bootstrap_method_list(input, read_u16(input, pos)))
      [] OTHER -> unknown_attribute(input, pos, attribute_length)

\* attribute_info::new, read after read: attribute_name_index,
\* attribute_length, the entry of the name in the pool, parse_info
attribute_info_of(attribute_name_index, attribute_length, info) ==
    Then(info, [attribute_name_index |-> attribute_name_index,
                attribute_length |-> attribute_length, info |-> info.value])

attribute_info_entry(input, constant_pool, attribute_name_index, attribute_length, item) ==
    IF ~item.ok THEN panic("get_entry", attribute_length.pos)
    ELSE IF item.value.tag # "Utf8"
    THEN panic("attribute_name pointed to something not CONSTANT_Utf8_info",
               attribute_length.pos)
    ELSE attribute_info_of(attribute_name_index, attribute_length.value,
                           parse_info(input, attribute_length.pos, constant_pool,
                                      attribute_length.value, item.value.text))

attribute_info_sized(input, constant_pool, attribute_name_index, attribute_length) ==
    IF attribute_length.status # "Ok" THEN attribute_length
    ELSE attribute_info_entry(input, constant_pool, attribute_name_index,
                              attribute_length,
                              get_entry(constant_pool, attribute_name_index))

attribute_info_named(input, constant_pool, attribute_name_index) ==
    IF attribute_name_index.status # "Ok" THEN attribute_name_index
    ELSE attribute_info_sized(input, constant_pool, attribute_name_index.value,
                              read_u32(input, attribute_name_index.pos))

attribute_info_new(input, pos, constant_pool) ==
    attribute_info_named(input, constant_pool, read_u16(input, pos))

\* read_attributes
read_attributes_after(input, length, constant_pool, first) ==
    IF first.status # "Ok" THEN first
    ELSE Push(first.value, read_attributes(input, first.pos, length - 1, constant_pool))

read_attributes(input, pos, length, constant_pool) ==
    IF length = 0 THEN Done(<<>>, pos)
    ELSE read_attributes_after(input, length, constant_pool,
                               attribute_info_new(input, pos, constant_pool))

-----------------------------------------------------------------------------
(* method.rs: the method-descriptor parser.  A position is the 0-based     *)
(* index the character iterator yields next.                               *)

\* ReturnDescriptor
Void == [kind |-> "Void", type |-> Primitive("Illegal")]
Return(type) == [kind |-> "Return", type |-> type]

\* a parse of one parameter that panicked, and one that returned
ParameterPanic == [ok |-> FALSE, desc |-> Primitive("Illegal"), next |-> 0]
Parameter(desc, next) == [ok |-> TRUE, desc |-> desc, next |-> next]

\* parse_descriptor_reference: the character after 'L' is taken by the
\* first next(); endIndex counts the characters between it and the ';'
parse_descriptor_reference(method_name, pos) ==
    LET startIndex == pos
        semicolon == ScanSemicolon(method_name, pos + 1)
        endIndex == startIndex + (semicolon - (pos + 1))
    IN  IF pos >= Len(method_name) THEN ParameterPanic
        ELSE IF semicolon < 0 THEN ParameterPanic
        ELSE Parameter(Reference(Symbolic(Slice(method_name, startIndex, endIndex))),
                       semicolon + 1)

\* parse_descriptor_array, entered after the first '[' was taken
parse_descriptor_array(method_name, pos) ==
    LET startIndex == pos - 1
        stop == SkipBrackets(method_name, pos)
        counted == (startIndex + 1) + (stop - pos)
        semicolon == ScanSemicolon(method_name, stop + 1)
        c == CharAt(method_name, stop)
    IN  IF pos >= Len(method_name) \/ stop >= Len(method_name) THEN ParameterPanic
        ELSE IF PrimitiveOf(c) # "Illegal"
        THEN Parameter(Reference(Symbolic(Slice(method_name, startIndex, counted + 1))),
                       stop + 1)
        ELSE IF c = "L"
        THEN IF semicolon < 0 THEN ParameterPanic
             ELSE Parameter(Reference(Symbolic(Slice(method_name, startIndex,
                                                     counted + (semicolon - stop)))),
                            semicolon + 1)
        ELSE ParameterPanic

\* parse_method_descriptor, the loop of lines 95-114
RECURSIVE parse_parameters(_, _, _)
parse_parameters(method_name, pos, parameters) ==
    IF pos >= Len(method_name) THEN [ok |-> FALSE, parameters |-> parameters, next |-> pos]
    ELSE LET next_char == CharAt(method_name, pos)
             next_parameter ==
                 IF next_char = "L" THEN parse_descriptor_reference(method_name, pos + 1)
                 ELSE IF next_char = "[" THEN parse_descriptor_array(method_name, pos + 1)
                 ELSE IF PrimitiveOf(next_char) # "Illegal"
                 THEN Parameter(Primitive(PrimitiveOf(next_char)), pos + 1)
                 ELSE ParameterPanic
         IN  IF next_char = ")"
             THEN [ok |-> TRUE, parameters |-> parameters, next |-> pos + 1]
             ELSE IF ~next_parameter.ok
             THEN [ok |-> FALSE, parameters |-> parameters, next |-> pos]
             ELSE parse_parameters(method_name, next_parameter.next,
                                   Append(parameters, next_parameter.desc))

\* parse_method_descriptor; line 116 makes the return type Void whatever
\* follows the ')'
parse_method_descriptor(method_name) ==
    LET listed == parse_parameters(method_name, 1, <<>>)
    IN  IF Len(method_name) = 0 \/ CharAt(method_name, 0) # "("
        THEN [ok |-> FALSE, parameters |-> <<>>, return_type |-> Void]
        ELSE IF ~listed.ok
        THEN [ok |-> FALSE, parameters |-> <<>>, return_type |-> Void]
        ELSE [ok |-> TRUE, parameters |-> listed.parameters,
              return_type |-> Void]

\* method_info::new: the four header reads are unwrapped, the attributes
\* are read with ?
method_info_of(head, attributes) ==
    IF attributes.status # "Ok" THEN attributes
    ELSE Done([access_flags |-> head.value[1], name_index |-> head.value[2],
               descriptor_index |-> head.value[3],
               attributes |-> attributes.value], attributes.pos)

method_info_headed(input, pos, constant_pool, head) ==
    IF head.status # "Ok" THEN panic("unwrap", pos)
    ELSE method_info_of(head, read_attributes(input, head.pos, head.value[4],
                                              constant_pool))

method_info_new(input, pos, constant_pool) ==
    method_info_headed(input, pos, constant_pool, read_u16s(input, pos, 4))

\* read_methods: a MethodInfo keeps the name, the class and the descriptor;
\* the attributes of the method_info are dropped and code is empty
RECURSIVE read_methods(_, _, _, _, _)
read_methods_described(input, length, constant_pool, self_reference_name, method_meta, name, descriptor) ==
    IF ~descriptor.ok THEN panic("parse_method_descriptor", method_meta.pos)
    ELSE Push([name |-> name.value, parent_class |-> Symbolic(self_reference_name),
               descriptor |-> descriptor, code |-> <<>>],
              read_methods(input, method_meta.pos, length - 1, constant_pool,
                           self_reference_name))

read_methods_named(input, length, constant_pool, self_reference_name, method_meta, name, descriptor_str) ==
    IF ~name.ok THEN panic("get_string_entry", method_meta.pos)
    ELSE IF ~descriptor_str.ok THEN panic("get_string_entry", method_meta.pos)
    ELSE read_methods_described(input, length, constant_pool, self_reference_name,
                                method_meta, name,
                                parse_method_descriptor(descriptor_str.value))

read_methods_after(input, length, constant_pool, self_reference_name, method_meta) ==
    IF method_meta.status # "Ok" THEN method_meta
    ELSE read_methods_named(input, length, constant_pool, self_reference_name,
             method_meta,
             get_string_entry(constant_pool, method_meta.value.name_index),
             get_string_entry(constant_pool, method_meta.value.descriptor_index))

read_methods(input, pos, length, constant_pool, self_reference_name) ==
    IF length = 0 THEN Done(<<>>, pos)
    ELSE read_methods_after(input, length, constant_pool, self_reference_name,
                            method_info_new(input, pos, constant_pool))

-----------------------------------------------------------------------------
(* field.rs: the field table *)

\* field_info::new
field_info_of(head, attributes) ==
    IF attributes.status # "Ok" THEN attributes
    ELSE Done([access_flags |-> head.value[1], name_index |-> head.value[2],
               descriptor_index |-> head.value[3],
               attributes |-> attributes.value], attributes.pos)

field_info_headed(input, constant_pool, head) ==
    IF head.status # "Ok" THEN head
    ELSE field_info_of(head, read_attributes(input, head.pos, head.value[4],
                                             constant_pool))

field_info_new(input, pos, constant_pool) ==
    field_info_headed(input, constant_pool, read_u16s(input, pos, 4))

\* read_fields, the loop from index on: a FieldInfo keeps the name, the
\* class, the descriptor and the index; the attributes are dropped
RECURSIVE read_fields_from(_, _, _, _, _, _)
read_fields_described(input, index, length, constant_pool, self_reference_name, field_meta, name, descriptor) ==
    IF ~descriptor.ok THEN panic("parse_field_descriptor", field_meta.pos)
    ELSE Push([name |-> name.value, parent_class |-> Symbolic(self_reference_name),
               descriptor |-> descriptor.desc, index |-> index],
              read_fields_from(input, field_meta.pos, index + 1, length,
                               constant_pool, self_reference_name))

read_fields_named(input, index, length, constant_pool, self_reference_name, field_meta, name, descriptor_str) ==
    IF ~name.ok THEN panic("get_string_entry", field_meta.pos)
    ELSE IF ~descriptor_str.ok THEN panic("get_string_entry", field_meta.pos)
    ELSE read_fields_described(input, index, length, constant_pool,
                               self_reference_name, field_meta, name,
                               parse_field_descriptor(descriptor_str.value))

read_fields_after(input, index, length, constant_pool, self_reference_name, field_meta) ==
    IF field_meta.status # "Ok" THEN field_meta
    ELSE read_fields_named(input, index, length, constant_pool, self_reference_name,
             field_meta,
             get_string_entry(constant_pool, field_meta.value.name_index),
             get_string_entry(constant_pool, field_meta.value.descriptor_index))

read_fields_from(input, pos, index, length, constant_pool, self_reference_name) ==
    IF index = length THEN Done(<<>>, pos)
    ELSE read_fields_after(input, index, length, constant_pool, self_reference_name,
                           field_info_new(input, pos, constant_pool))

\* read_fields
read_fields(input, pos, length, constant_pool, self_reference_name) ==
    read_fields_from(input, pos, 0, length, constant_pool, self_reference_name)

-----------------------------------------------------------------------------
(* class_file.rs: ClassFile::new on the bytes *)

\* ClassAccessFlag (class.rs), by bit value
ClassAccessFlags ==
    {[bit |-> 1, name |-> "ACC_PUBLIC"], [bit |-> 16, name |-> "ACC_FINAL"],
     [bit |-> 32, name |-> "ACC_SUPER"], [bit |-> 512, name |-> "ACC_INTERFACE"],
     [bit |-> 1024, name |-> "ACC_ABSTRACT"], [bit |-> 4096, name |-> "ACC_SYNTHETIC"],
     [bit |-> 8192, name |-> "ACC_ANNOTATION"], [bit |-> 16384, name |-> "ACC_ENUM"]}

HasBit(n, bit) == (n \div bit) % 2 = 1

\* ClassAccessFlag::from_bits: None when a bit outside the flags is set
from_bits(n) ==
    LET known == {f \in ClassAccessFlags : HasBit(n, f.bit)}
        others == {k \in 0..15 : HasBit(n, 2 ^ k)
                                 /\ \A f \in ClassAccessFlags : f.bit # 2 ^ k}
    IN  [ok |-> others = {}, flags |-> {f.name : f \in known}]

\* the name a CONSTANT_Class_info at index leads to; a panic when the
\* entry is unused, is no CONSTANT_Class_info or names no CONSTANT_Utf8_info
class_name_at(constant_pool, index) ==
    LET data == get_entry(constant_pool, index)
    IN  IF ~data.ok THEN LookupPanic
        ELSE IF data.value.tag # "Class" THEN LookupPanic
        ELSE get_string_entry(constant_pool, data.value.name_index)

\* ClassFile::new, lines 134-142: the names of the interfaces
interface_names(constant_pool, interfaces) ==
    IF \E i \in DOMAIN interfaces : ~class_name_at(constant_pool, interfaces[i]).ok
    THEN LookupPanic
    ELSE Found([i \in DOMAIN interfaces |->
                   Symbolic(class_name_at(constant_pool, interfaces[i]).value)])

\* ClassFile::new, from the last read backwards: each step takes what
\* was decoded before it (class) and the read it follows
\* lines 147-166: the attributes, and the ClassFile
ClassFile_new_attributes(class, attributes) ==
    IF attributes.status # "Ok" THEN attributes
    ELSE Done([kind |-> "File",
               magic |-> class.magic,
               minor_version |-> class.minor_version,
               name |-> class.this_class,
               access_flags |-> class.access_flags,
               super_class |-> class.super_class,
               major_version |-> class.major_version,
               constant_pool |-> class.constant_pool,
               interfaces |-> class.interfaces,
               fields |-> class.fields,
               methods |-> class.methods,
               attributes |-> attributes.value], attributes.pos)

ClassFile_new_attributes_count(input, class, attributes_count) ==
    IF attributes_count.status # "Ok" THEN attributes_count
    ELSE ClassFile_new_attributes(class,
             read_attributes(input, attributes_count.pos, attributes_count.value,
                             class.constant_pool))

\* lines 145-146: the methods
ClassFile_new_methods(input, class, methods) ==
    IF methods.status # "Ok" THEN methods
    ELSE ClassFile_new_attributes_count(input, class @@ [methods |-> methods.value],
                                        read_u16(input, methods.pos))

ClassFile_new_methods_count(input, class, methods_count) ==
    IF methods_count.status # "Ok" THEN methods_count
    ELSE ClassFile_new_methods(input, class,
             read_methods(input, methods_count.pos, methods_count.value,
                          class.constant_pool, class.this_class))

\* lines 143-144: the fields
ClassFile_new_fields(input, class, fields) ==
    IF fields.status # "Ok" THEN fields
    ELSE ClassFile_new_methods_count(input, class @@ [fields |-> fields.value],
                                     read_u16(input, fields.pos))

ClassFile_new_fields_count(input, class, fields_count) ==
    IF fields_count.status # "Ok" THEN fields_count
    ELSE ClassFile_new_fields(input, class,
             read_fields(input, fields_count.pos, fields_count.value,
                         class.constant_pool, class.this_class))

\* lines 132-142: the interfaces
ClassFile_new_interface_names(input, class, pos, interfaces) ==
    IF ~interfaces.ok THEN panic("ClassFile#interfaces", pos)
    ELSE ClassFile_new_fields_count(input, class @@ [interfaces |-> interfaces.value],
                                    read_u16(input, pos))

ClassFile_new_interfaces(input, class, interface_indices) ==
    IF interface_indices.status # "Ok" THEN interface_indices
    ELSE ClassFile_new_interface_names(input, class, interface_indices.pos,
             interface_names(class.constant_pool, interface_indices.value))

ClassFile_new_interfaces_count(input, class, interfaces_count) ==
    IF interfaces_count.status # "Ok" THEN interfaces_count
    ELSE ClassFile_new_interfaces(input, class,
             read_u16s(input, interfaces_count.pos, interfaces_count.value))

\* lines 117-131: the super class, None when the index is 0
ClassFile_new_super_class_name(input, class, pos, super_class_name) ==
    IF ~super_class_name.ok THEN panic("ClassFile#super_class", pos)
    ELSE ClassFile_new_interfaces_count(input,
             class @@ [super_class |-> Symbolic(super_class_name.value)],
             read_u16(input, pos))

ClassFile_new_super_class(input, class, super_class_index) ==
    IF super_class_index.status # "Ok" THEN super_class_index
    ELSE IF super_class_index.value = 0
    THEN ClassFile_new_interfaces_count(input, class @@ [super_class |-> NoSuper],
                                        read_u16(input, super_class_index.pos))
    ELSE ClassFile_new_super_class_name(input, class, super_class_index.pos,
             class_name_at(class.constant_pool, super_class_index.value))

\* lines 105-116: this class
ClassFile_new_this_class_name(input, class, pos, this_class) ==
    IF ~this_class.ok THEN panic("ClassFile#this_class", pos)
    ELSE ClassFile_new_super_class(input, class @@ [this_class |-> this_class.value],
                                   read_u16(input, pos))

ClassFile_new_this_class(input, class, this_class_index) ==
    IF this_class_index.status # "Ok" THEN this_class_index
    ELSE ClassFile_new_this_class_name(input, class, this_class_index.pos,
             class_name_at(class.constant_pool, this_class_index.value))

\* lines 103-104: the access flags
ClassFile_new_flags(input, class, pos, access_flags) ==
    IF ~access_flags.ok THEN panic("Couldn't parse Class Access Flags", pos)
    ELSE ClassFile_new_this_class(input, class @@ [access_flags |-> access_flags.flags],
                                  read_u16(input, pos))

ClassFile_new_flag_bits(input, class, flag_bits) ==
    IF flag_bits.status # "Ok" THEN flag_bits
    ELSE ClassFile_new_flags(input, class, flag_bits.pos, from_bits(flag_bits.value))

\* lines 101-102: the constant pool
ClassFile_new_constant_pool(input, class, constant_pool) ==
    IF constant_pool.status # "Ok" THEN constant_pool
    ELSE ClassFile_new_flag_bits(input,
             class @@ [constant_pool |-> constant_pool.value],
             read_u16(input, constant_pool.pos))

ClassFile_new_constant_pool_count(input, overflow_checks, class, constant_pool_count) ==
    IF constant_pool_count.status # "Ok" THEN constant_pool_count
    ELSE ClassFile_new_constant_pool(input, class,
             read_constant_pool(input, constant_pool_count.pos,
                                constant_pool_count.value, overflow_checks))

\* lines 96-100: the versions
ClassFile_new_major_version(input, overflow_checks, class, major_version) ==
    IF major_version.status # "Ok" THEN major_version
    ELSE IF unsupported(major_version.value)
    THEN Failed("UnsupportedClassVersionError", "", major_version.pos)
    ELSE ClassFile_new_constant_pool_count(input, overflow_checks,
             class @@ [major_version |-> major_version.value],
             read_u16(input, major_version.pos))

ClassFile_new_minor_version(input, overflow_checks, class, minor_version) ==
    IF minor_version.status # "Ok" THEN minor_version
    ELSE ClassFile_new_major_version(input, overflow_checks,
             class @@ [minor_version |-> minor_version.value],
             read_u16(input, minor_version.pos))

\* line 95: the magic, kept as its four bytes
ClassFile_new_magic(input, overflow_checks, magic) ==
    IF magic.status # "Ok" THEN magic
    ELSE ClassFile_new_minor_version(input, overflow_checks, [magic |-> magic.value],
                                     read_u16(input, magic.pos))

\* ClassFile::new
ClassFile_new(input, overflow_checks) ==
    ClassFile_new_magic(input, overflow_checks, read_exact(input, 0, 4))

-----------------------------------------------------------------------------
(* The class paths the model starts from *)

ClassFlags == {"ACC_PUBLIC", "ACC_SUPER"}
InterfaceFlags == {"ACC_PUBLIC", "ACC_INTERFACE", "ACC_ABSTRACT"}

\* what <name>.class may hold besides nothing: a stream that ends early, a
\* class file of major version 53, or a well-formed class file of version 52
\* that declares one of the names in declared and one of the supers
Undecodable(name) ==
    {Entry(CURRENT_VERSION, TRUE, name, NoSuper, ClassFlags),
     Entry(CURRENT_VERSION + 1, FALSE, name, NoSuper, ClassFlags)}

WellFormed(declared, supers) ==
    { Entry(CURRENT_VERSION, FALSE, this_class, super_class, access_flags) :
        this_class \in declared, super_class \in supers,
        access_flags \in {ClassFlags, InterfaceFlags} }

ObjectEntries ==
    {Absent,
     Entry(CURRENT_VERSION, FALSE, ObjectName, NoSuper, ClassFlags),
     Entry(CURRENT_VERSION, FALSE, ObjectName, Symbolic(NameA), ClassFlags),
     Entry(CURRENT_VERSION, FALSE, ObjectName, Symbolic(ArrayName(2, <<"I">>)),
           ClassFlags)}

EntriesA ==
    {Absent} \cup Undecodable(NameA)
    \cup WellFormed({NameA, NameB},
                    {NoSuper, Symbolic(ObjectName), Symbolic(NameA), Symbolic(NameB)})

EntriesB ==
    {Absent}
    \cup WellFormed({NameB}, {NoSuper, Symbolic(ObjectName), Symbolic(NameA)})

\* one directory root
Roots ==
    { [n \in FileNames |->
         IF n = ObjectName THEN o ELSE IF n = NameA THEN a ELSE b] :
      o \in ObjectEntries, a \in EntriesA, b \in EntriesB }

ClassPaths == { <<root>> : root \in Roots }

\* the class paths of the interface specification: Object.class is the
\* root; A.class extends Object or B; B.class is missing, a class or an
\* interface that extends Object.  A.class may name B, and B.class may name
\* A, as an interface, as the type of a field and as a parameter of a method
NamingClasses(entry, named) ==
    { Declaring(entry, interfaces, fields, methods) :
        interfaces \in {<<>>, <<Symbolic(named)>>},
        fields \in {<<>>, <<Reference(Symbolic(named))>>},
        methods \in {<<>>, <<[parameters |-> <<Reference(Symbolic(named))>>,
                              return_type |-> Void]>>} }

InterfaceEntriesA ==
    UNION { NamingClasses(Entry(CURRENT_VERSION, FALSE, NameA, super_class, ClassFlags),
                          NameB) :
            super_class \in {Symbolic(ObjectName), Symbolic(NameB)} }

InterfaceEntriesB ==
    {Absent}
    \cup UNION { NamingClasses(Entry(CURRENT_VERSION, FALSE, NameB,
                                     Symbolic(ObjectName), access_flags), NameA) :
                 access_flags \in {ClassFlags, InterfaceFlags} }

InterfaceClassPaths ==
    { <<[n \in FileNames |->
           IF n = ObjectName
           THEN Entry(CURRENT_VERSION, FALSE, ObjectName, NoSuper, ClassFlags)
           ELSE IF n = NameA THEN a ELSE b]>> :
      a \in InterfaceEntriesA, b \in InterfaceEntriesB }

\* the class paths of the array-class specification: A.class is missing, a
\* class or an interface
ArrayClassPaths ==
    { <<[n \in FileNames |->
           IF n = ObjectName
           THEN Entry(CURRENT_VERSION, FALSE, ObjectName, NoSuper, ClassFlags)
           ELSE IF n = NameA THEN a ELSE Absent]>> :
      a \in {Absent} \cup WellFormed({NameA}, {Symbolic(ObjectName)}) }

\* the class paths of the class-path specification: none to three roots;
\* a root holds or lacks Object.class, and holds A.class as a class, as an
\* interface (other bytes) or not at all; no root holds B.class
PathRoots ==
    { [n \in FileNames |->
         IF n = ObjectName THEN o ELSE IF n = NameA THEN a ELSE Absent] :
      o \in {Absent, Entry(CURRENT_VERSION, FALSE, ObjectName, NoSuper, ClassFlags)},
      a \in {Absent} \cup WellFormed({NameA}, {Symbolic(ObjectName)}) }

PathClassPaths ==
    {<<>>} \cup { <<r1>> : r1 \in PathRoots }
    \cup { <<r1, r2>> : r1 \in PathRoots, r2 \in PathRoots }
    \cup { <<r1, r2, r3>> : r1 \in PathRoots, r2 \in PathRoots, r3 \in PathRoots }

-----------------------------------------------------------------------------
(* The streams the decoder is given, written out byte by byte *)

Ord(c) == CHOOSE b \in Printable : Chr(b) = c
U16Bytes(n) == <<n \div U8Values, n % U8Values>>
U32Bytes(n) == <<0, 0>> \o U16Bytes(n)

RECURSIVE Flatten(_)
Flatten(seqs) == IF seqs = <<>> THEN <<>> ELSE seqs[1] \o Flatten(Tail(seqs))

\* the bytes of one constant
EncodeConstant(c) ==
    CASE c.tag = "Utf8" ->
             <<1>> \o U16Bytes(Len(c.text)) \o [i \in DOMAIN c.text |-> Ord(c.text[i])]
      [] c.tag = "Integer" -> <<3>> \o c.bits
      [] c.tag = "Float" -> <<4>> \o c.bits
      [] c.tag = "Long" -> <<5>> \o c.bits
      [] c.tag = "Double" -> <<6>> \o c.bits
      [] c.tag = "Class" -> <<7>> \o U16Bytes(c.name_index)
      [] c.tag = "String" -> <<8>> \o U16Bytes(c.string_index)
      [] c.tag = "Fieldref" ->
             <<9>> \o U16Bytes(c.class_index) \o U16Bytes(c.name_and_type_index)
      [] c.tag = "Methodref" ->
             <<10>> \o U16Bytes(c.class_index) \o U16Bytes(c.name_and_type_index)
      [] c.tag = "InterfaceMethodref" ->
             <<11>> \o U16Bytes(c.class_index) \o U16Bytes(c.name_and_type_index)
      [] c.tag = "NameAndType" ->
             <<12>> \o U16Bytes(c.name_index) \o U16Bytes(c.descriptor_index)

EncodeConstants(items) == Flatten([k \in DOMAIN items |-> EncodeConstant(items[k])])

\* the number of pool indices a constant takes, and the index of the k-th one
Slots(c) == IF c.tag \in {"Long", "Double"} THEN 2 ELSE 1
RECURSIVE SlotsOf(_)
SlotsOf(items) == IF items = <<>> THEN 0 ELSE Slots(items[1]) + SlotsOf(Tail(items))
IndexOf(items, k) == 1 + SlotsOf(SubSeq(items, 1, k - 1))

\* constant_pool_count followed by the constants
EncodePool(count, items) == U16Bytes(count) \o EncodeConstants(items)

\* the constants the pools of the model are made of
PoolConstants ==
    {CONSTANT_Utf8_info(NameA),
     CONSTANT_Class_info(1),
     CONSTANT_Integer_info(<<0, 0, 0, 7>>),
     CONSTANT_Long_info(<<0, 0, 0, 0, 0, 0, 1, 0>>),
     CONSTANT_Double_info(<<64, 9, 33, 251, 84, 68, 45, 24>>)}

MaxPoolConstants == 3

\* the parameters of a method descriptor
MaxParameters == 2

\* the most locals, and the most stack items, of a full frame
MaxFrameItems == 2

\* the largest attribute_length the attribute records declare beside the
\* length of their body
MaxDeclaredLength == 3

PoolItemLists ==
    UNION { [1..n -> PoolConstants] : n \in 0..MaxPoolConstants }

\* a pool with the count its constants call for, with a count one short
\* of it, and with the count 0
PoolCounts(items) == {0} \cup {n \in {SlotsOf(items), SlotsOf(items) + 1} : n > 0}

PoolStreams ==
    UNION { { EncodePool(count, items) : count \in PoolCounts(items) } :
            items \in PoolItemLists }

\* the bytes of a text
TextBytes(text) == [i \in DOMAIN text |-> Ord(text[i])]

\* the bytes of an attribute: the index of its name, the length of its
\* body, the body
AttributeBytes(name_index, body) == U16Bytes(name_index) \o U32Bytes(Len(body)) \o body

\* the bytes of a verification_type_info of a tag: tags 7 and 8 carry an index
VerificationBytes(tag) == IF tag \in {7, 8} THEN <<tag, 0, 2>> ELSE <<tag>>

\* the bytes of a stack-map frame of a type, with one verification tag for
\* every item of its lists; a type from 128 to 246 has no body to write
FrameBytes(frame_type, tag) ==
    CASE frame_type \in 0..63 -> <<frame_type>>
      [] frame_type \in 64..127 -> <<frame_type>> \o VerificationBytes(tag)
      [] frame_type = 247 -> <<frame_type, 0, 1>> \o VerificationBytes(tag)
      [] frame_type \in 248..251 -> <<frame_type, 0, 1>>
      [] frame_type \in 252..254 ->
             <<frame_type, 0, 1>>
             \o Flatten([i \in 1..(frame_type - 251) |-> VerificationBytes(tag)])
      [] frame_type = 255 ->
             <<frame_type, 0, 1>> \o U16Bytes(2) \o VerificationBytes(tag)
             \o VerificationBytes(1) \o U16Bytes(1) \o VerificationBytes(2)
      [] OTHER -> <<frame_type>>

\* the bytes of an element_value of a tag: a constant index, an enum, a
\* class, an annotation with one pair, an array of two constants; a tag
\* outside the enumeration has no body to write
ElementValueBytes(tag) ==
    CASE tag \in ConstValueTags \cup {"c"} -> <<Ord(tag)>> \o U16Bytes(8)
      [] tag = "e" -> <<Ord(tag)>> \o U16Bytes(1) \o U16Bytes(5)
      [] tag = "@" ->
             <<Ord(tag)>> \o U16Bytes(1) \o U16Bytes(1) \o U16Bytes(5)
             \o <<Ord("I")>> \o U16Bytes(8)
      [] tag = "[" ->
             <<Ord(tag)>> \o U16Bytes(2) \o <<Ord("I")>> \o U16Bytes(8)
             \o <<Ord("s")>> \o U16Bytes(5)
      [] OTHER -> <<Ord(tag)>>

\* the texts of the sample class file
Text_f == <<"f">>
Text_I == <<"I">>
Text_m == <<"m">>
Text_NoArgsVoid == <<"(", ")", "V">>
Text_Vendor == <<"V", "e", "n", "d", "o", "r">>

\* the constant pool of the sample class file, by index (13 takes two);
\* constant 10 is the descriptor of its method
SampleConstants(descriptor) ==
    <<CONSTANT_Utf8_info(NameA),                  \* 1
      CONSTANT_Class_info(1),                     \* 2
      CONSTANT_Utf8_info(ObjectName),             \* 3
      CONSTANT_Class_info(3),                     \* 4
      CONSTANT_Utf8_info(Text_f),                 \* 5
      CONSTANT_Utf8_info(Text_I),                 \* 6
      CONSTANT_Utf8_info(Name_ConstantValue),     \* 7
      CONSTANT_Integer_info(<<0, 0, 0, 7>>),      \* 8
      CONSTANT_Utf8_info(Text_m),                 \* 9
      CONSTANT_Utf8_info(descriptor),             \* 10
      CONSTANT_Utf8_info(Name_Code),              \* 11
      CONSTANT_Utf8_info(Name_StackMapTable),     \* 12
      CONSTANT_Long_info(<<0, 0, 0, 0, 0, 0, 1, 0>>),  \* 13, 14
      CONSTANT_Utf8_info(Text_Vendor),            \* 15
      CONSTANT_Utf8_info(Name_AnnotationDefault)>>  \* 16

\* the sections of the sample class file.  It is well formed when its
\* parameters are: version major; pool_tag the tag byte of constant 8;
\* frame_type and verification_tag the first frame of the StackMapTable;
\* element_tag the AnnotationDefault of the method; blob the body of the
\* class attribute named Vendor, a name parse_info does not know;
\* descriptor the descriptor of the method
SampleHeader(major) == <<202, 254, 186, 190>> \o U16Bytes(0) \o U16Bytes(major)

SamplePool(pool_tag, descriptor) ==
    LET constants == SampleConstants(descriptor)
    IN  U16Bytes(SlotsOf(constants) + 1)
        \o EncodeConstants(SubSeq(constants, 1, 7))
        \o <<pool_tag, 0, 0, 0, 7>>
        \o EncodeConstants(SubSeq(constants, 9, Len(constants)))

SampleClassItems ==
    U16Bytes(33) \o U16Bytes(2) \o U16Bytes(4) \o U16Bytes(1) \o U16Bytes(4)

SampleFields ==
    U16Bytes(1) \o U16Bytes(2) \o U16Bytes(5) \o U16Bytes(6) \o U16Bytes(1)
    \o AttributeBytes(7, U16Bytes(8))

SampleStackMapTable(frame_type, verification_tag) ==
    AttributeBytes(12, U16Bytes(2) \o FrameBytes(frame_type, verification_tag)
                       \o FrameBytes(255, 0))

SampleCode(frame_type, verification_tag) ==
    AttributeBytes(11, U16Bytes(1) \o U16Bytes(1) \o U32Bytes(1) \o <<177>>
                       \o U16Bytes(0) \o U16Bytes(1)
                       \o SampleStackMapTable(frame_type, verification_tag))

SampleMethods(frame_type, verification_tag, element_tag) ==
    U16Bytes(1) \o U16Bytes(1) \o U16Bytes(9) \o U16Bytes(10) \o U16Bytes(2)
    \o SampleCode(frame_type, verification_tag)
    \o AttributeBytes(16, ElementValueBytes(element_tag))

SampleAttributes(blob) ==
    U16Bytes(2) \o AttributeBytes(15, blob) \o AttributeBytes(7, U16Bytes(8))

SampleFile(p) ==
    SampleHeader(p.major) \o SamplePool(p.pool_tag, p.descriptor) \o SampleClassItems \o SampleFields
    \o SampleMethods(p.frame_type, p.verification_tag, p.element_tag)
    \o SampleAttributes(p.blob)

\* the well-formed sample
Sample ==
    [major |-> CURRENT_VERSION, pool_tag |-> 3, frame_type |-> 64,
     verification_tag |-> 7, element_tag |-> "I", blob |-> <<1, 2, 3>>,
     descriptor |-> Text_NoArgsVoid]

\* the values a tag byte takes in the streams: the whole enumeration and
\* values outside it
PoolTags == {0, 2, 3, 4, 13, 255}
FrameTypes == {0, 63, 64, 127, 128, 200, 246, 247, 248, 250, 251, 252, 254, 255}
VerificationTags == 0..10 \cup {255}
ElementTags == ConstValueTags \cup {"e", "c", "@", "[", "A", "V", "z"}
Blobs == {<<>>, <<7>>, <<1, 2, 3>>, <<0, 0, 0, 0>>}
MajorVersions == {0, 45, CURRENT_VERSION - 1, CURRENT_VERSION, CURRENT_VERSION + 1,
                  CURRENT_VERSION + 204, 65535}

\* the sample with one of its parameters changed
Variants ==
    { [Sample EXCEPT !.pool_tag = t] : t \in PoolTags }
    \cup { [Sample EXCEPT !.frame_type = t] : t \in FrameTypes }
    \cup { [Sample EXCEPT !.verification_tag = t] : t \in VerificationTags }
    \cup { [Sample EXCEPT !.element_tag = t] : t \in ElementTags }
    \cup { [Sample EXCEPT !.blob = b] : b \in Blobs }
    \cup { [Sample EXCEPT !.major = v] : v \in MajorVersions }

Prefixes(bytes) == { SubSeq(bytes, 1, n) : n \in 0..(Len(bytes) - 1) }

\* the streams of the decoder specification: every variant whole, every
\* proper prefix of the well-formed sample, and the first bytes of the
\* variants of other versions
ClassStreams ==
    { SampleFile(p) : p \in Variants }
    \cup Prefixes(SampleFile(Sample))
    \cup { SubSeq(SampleFile([Sample EXCEPT !.major = v]), 1, n) :
             v \in MajorVersions, n \in 6..9 }

\* the types of the descriptor grammar the method descriptors are written
\* from: the text of a type and the FieldDescriptor it stands for (an
\* array type is a Reference to the class its whole descriptor names, as
\* parse_field_descriptor_array gives it)
TypeOf(text) ==
    [text |-> text,
     desc |-> IF Len(text) = 1 THEN Primitive(PrimitiveOf(text[1]))
              ELSE IF text[1] = "L"
              THEN Reference(Symbolic(SubSeq(text, 2, Len(text) - 1)))
              ELSE Reference(Symbolic(text))]

ParameterTypes ==
    { TypeOf(text) : text \in { <<"I">>, <<"J">>, RefA,
                                <<"L">> \o ObjectName \o <<";">>,
                                ArrayName(1, <<"I">>), ArrayName(1, RefA) } }

\* the return descriptors: V and a type
ReturnTypes ==
    { [text |-> <<"V">>, return_type |-> Void] }
    \cup { [text |-> t.text, return_type |-> Return(t.desc)] :
             t \in { TypeOf(text) : text \in { <<"I">>, RefA, ArrayName(1, <<"I">>),
                                              ArrayName(2, RefA) } } }

\* the method types: up to MaxParameters parameters and a return descriptor
MethodTypes ==
    { [parameters |-> parameters, returns |-> returns] :
        parameters \in UNION { [1..n -> ParameterTypes] : n \in 0..MaxParameters },
        returns \in ReturnTypes }

\* the descriptor of a method type: (parameters)return
DescriptorText(m) ==
    <<"(">> \o Flatten([i \in DOMAIN m.parameters |-> m.parameters[i].text])
    \o <<")">> \o m.returns.text

\* the sample class file whose method has the descriptor of a method type
DescriptorStreams ==
    [m \in MethodTypes |-> SampleFile([Sample EXCEPT !.descriptor = DescriptorText(m)])]

\* the names of the attribute records of the attribute specification, in
\* the order of their constants in its pool: the names parse_info knows
\* and one it does not
AttributeNames ==
    <<Name_ConstantValue, Name_Code, Name_StackMapTable, Name_Exceptions,
      Name_InnerClasses, Name_EnclosingMethod, Name_Synthetic, Name_Signature,
      Name_SourceFile, Name_SourceDebugExtension, Name_LineNumberTable,
      Name_LocalVariableTable, Name_LocalVariableTypeTable, Name_Deprecated,
      Name_RuntimeVisibleAnnotations, Name_RuntimeInvisibleAnnotations,
      Name_RuntimeVisibleParameterAnnotations,
      Name_RuntimeInvisibleParameterAnnotations, Name_AnnotationDefault,
      Name_BootstrapMethods, Text_Vendor>>

\* the pool the attribute records are decoded with: constant i is the name i
AttributePool ==
    <<Unused>> \o [i \in DOMAIN AttributeNames |-> CONSTANT_Utf8_info(AttributeNames[i])]

\* a body of the attribute of a name, as the format lays it out
AttributeBody(name) ==
    CASE name \in {Name_ConstantValue, Name_Signature, Name_SourceFile} -> U16Bytes(8)
      [] name = Name_Code ->
             U16Bytes(1) \o U16Bytes(1) \o U32Bytes(1) \o <<177>> \o U16Bytes(0)
             \o U16Bytes(0)
      [] name = Name_StackMapTable -> U16Bytes(1) \o FrameBytes(0, 0)
      [] name = Name_Exceptions -> U16Bytes(1) \o U16Bytes(2)
      [] name = Name_EnclosingMethod -> U16Bytes(2) \o U16Bytes(0)
      [] name \in {Name_Synthetic, Name_Deprecated} -> <<>>
      [] name \in {Name_SourceDebugExtension, Text_Vendor} -> <<1, 2, 3>>
      [] name = Name_LineNumberTable -> U16Bytes(1) \o U16Bytes(0) \o U16Bytes(1)
      [] name \in {Name_RuntimeVisibleParameterAnnotations,
                   Name_RuntimeInvisibleParameterAnnotations} -> <<0>>
      [] name = Name_AnnotationDefault -> ElementValueBytes("I")
      [] OTHER -> U16Bytes(0)

Zeros(n) == [i \in 1..n |-> 0]

\* an attribute record that declares attribute_length bytes of body: the
\* body of its name, filled up with zeros where more bytes are declared
AttributeRecord(name_index, attribute_length) ==
    LET body == AttributeBody(AttributeNames[name_index])
    IN  U16Bytes(name_index) \o U32Bytes(attribute_length) \o body
        \o (IF attribute_length > Len(body) THEN Zeros(attribute_length - Len(body))
            ELSE <<>>)

\* the declared lengths of the records of a name: the length of its body
\* and the small lengths
DeclaredLengths(name_index) ==
    0..MaxDeclaredLength \cup {Len(AttributeBody(AttributeNames[name_index]))}

AttributeStreams ==
    UNION { { AttributeRecord(i, n) : n \in DeclaredLengths(i) } :
            i \in DOMAIN AttributeNames }

\* the lists of verification tags of a full frame: Top, Integer and Object
\* (which carries an index), up to MaxFrameItems of them
FrameItemTags == {0, 1, 7}
FrameItemLists == UNION { [1..n -> FrameItemTags] : n \in 0..MaxFrameItems }

\* a frame of type 255: offset_delta, number_of_locals and the locals,
\* number_of_stack_items and the stack items
FullFrameBytes(locals, stack) ==
    <<255>> \o U16Bytes(1)
    \o U16Bytes(Len(locals)) \o Flatten([i \in DOMAIN locals |-> VerificationBytes(locals[i])])
    \o U16Bytes(Len(stack)) \o Flatten([i \in DOMAIN stack |-> VerificationBytes(stack[i])])

\* the StackMapTable records (name 3 of the pool) of one full frame
FullFrameRecord(locals, stack) ==
    AttributeBytes(3, U16Bytes(1) \o FullFrameBytes(locals, stack))

FullFrames == FrameItemLists \X FrameItemLists
FullFrameStreams == [f \in FullFrames |-> FullFrameRecord(f[1], f[2])]

-----------------------------------------------------------------------------
(* The state machine *)

NoCall ==
    [name |-> <<>>, entry_stack |-> {}, stale_stack |-> {},
     map_before |-> <<>>, inheritance_stack |-> {}, fault |-> "None", panic |-> "None",
     handle |-> 0, lookups |-> <<>>, searches |-> <<>>, decodes |-> <<>>,
     calls |-> <<>>, depth |-> 0]

\* ClassLoader::new
NewLoader(roots) ==
    /\ classpath = roots
    /\ class_map = <<>>
    /\ classes = <<>>
    /\ panicked = FALSE
    /\ requests = 0
    /\ last_call = NoCall

\* no ClassRef is held outside the loader
NoRefCall ==
    [op |-> "none", ref |-> 0, before |-> <<>>, calls_before |-> <<>>,
     returned |-> 0, panic |-> FALSE]

NoRefs ==
    /\ refs = <<>>
    /\ resolver_calls = <<>>
    /\ ref_call = NoRefCall

\* nothing has been handed to the decoder
NoDecode == [op |-> "none", status |-> "None", value |-> <<>>, pos |-> 0, why |-> ""]
NoLookup == [index |-> 0, ok |-> FALSE, value |-> Unused, done |-> FALSE]

NoDecoder ==
    /\ stream = <<>>
    /\ outcome = NoDecode
    /\ lookup = NoLookup

Init == (\E roots \in ClassPaths : NewLoader(roots)) /\ NoRefs /\ NoDecoder

InitArray == (\E roots \in ArrayClassPaths : NewLoader(roots)) /\ NoRefs /\ NoDecoder

\* ClassLoader::create_class, called by main; a panic ends the process
create_class(class_name, overflow_checks) ==
    LET r == create_class_rec(NewCall(class_map, classes, new_inheritance_stack),
                              class_name, overflow_checks, MaxDepth)
    IN  /\ ~panicked
        /\ requests < MaxRequests
        /\ class_map' = r.class_map
        /\ classes' = r.classes
        /\ panicked' = (r.panic # "None")
        /\ requests' = requests + 1
        /\ last_call' = [name |-> class_name,
                         entry_stack |-> new_inheritance_stack,
                         stale_stack |-> last_call.inheritance_stack,
                         map_before |-> class_map,
                         inheritance_stack |-> r.inheritance_stack,
                         fault |-> r.fault, panic |-> r.panic,
                         handle |-> IF r.panic # "None" THEN 0 ELSE r.handle,
                         lookups |-> r.lookups,
                         searches |-> r.searches,
                         decodes |-> r.decodes, calls |-> r.calls,
                         depth |-> r.depth]
        /\ UNCHANGED classpath
        /\ UNCHANGED <<ref_vars, decoder_vars>>

Next == \E class_name \in RequestNames, overflow_checks \in BOOLEAN :
            create_class(class_name, overflow_checks)

Spec == Init /\ [][Next]_vars

\* the requests of the array-class specification
NextArray == \E class_name \in ArrayRequestNames, overflow_checks \in BOOLEAN :
                 create_class(class_name, overflow_checks)

SpecArray == InitArray /\ [][NextArray]_vars

\* the interface specification: the requests of Spec on class files that
\* name other classes as interfaces and in descriptors
InitInterfaces == (\E roots \in InterfaceClassPaths : NewLoader(roots)) /\ NoRefs /\ NoDecoder

SpecInterfaces == InitInterfaces /\ [][Next]_vars

\* the class-path specification: the loader over several roots
InitPath == (\E roots \in PathClassPaths : NewLoader(roots)) /\ NoRefs /\ NoDecoder

NextPath == \E class_name \in FileNames, overflow_checks \in BOOLEAN :
                create_class(class_name, overflow_checks)

SpecPath == InitPath /\ [][NextPath]_vars

\* the class-reference specification: three references as the decoder
\* makes them (Symbolic, class_file.rs:124 and 141), resolved and read in
\* any order against a resolver that may answer with any class
RefNames == {NameA, NameB}
Handles == 1..2

IdleLoader ==
    /\ classpath = <<>>
    /\ class_map = <<>>
    /\ classes = <<>>
    /\ panicked = FALSE
    /\ requests = 0
    /\ last_call = NoCall

InitRef ==
    /\ IdleLoader
    /\ refs \in [1..3 -> {Symbolic(n) : n \in RefNames}]
    /\ resolver_calls = <<>>
    /\ ref_call = NoRefCall
    /\ NoDecoder

\* a call of ClassRef::resolve on the reference at position r
Resolve(r) ==
    \E answer \in Handles :
        LET resolved == resolve(refs[r], answer)
        IN  /\ ~ref_call.panic
            /\ Len(resolver_calls) < MaxResolverCalls
            /\ refs' = [refs EXCEPT ![r] = resolved.self]
            /\ resolver_calls' = resolver_calls \o resolved.called
            /\ ref_call' = [op |-> "resolve", ref |-> r, before |-> refs,
                            calls_before |-> resolver_calls,
                            returned |-> resolved.returned, panic |-> FALSE]
            /\ UNCHANGED <<loader_vars, decoder_vars>>

\* a call of ClassRef::get on the reference at position r; its panic ends
\* the process
Get(r) ==
    LET got == get(refs[r])
    IN  /\ ~ref_call.panic
        /\ ref_call' = [op |-> "get", ref |-> r, before |-> refs,
                        calls_before |-> resolver_calls,
                        returned |-> got.class, panic |-> ~got.ok]
        /\ UNCHANGED <<refs, resolver_calls>>
        /\ UNCHANGED <<loader_vars, decoder_vars>>

NextRef == \E r \in 1..3 : Resolve(r) \/ Get(r)

SpecRef == InitRef /\ [][NextRef]_vars

\* the constant-pool specification: a stream that starts at
\* constant_pool_count is read as ClassFile::new reads it (lines 101-102),
\* then the pool is asked for entries
InitPool ==
    /\ IdleLoader
    /\ NoRefs
    /\ stream \in PoolStreams
    /\ outcome = NoDecode
    /\ lookup = NoLookup

ReadConstantPool(overflow_checks) ==
    LET constant_pool_count == read_u16(stream, 0)
        constant_pool == read_constant_pool(stream, constant_pool_count.pos,
                                            constant_pool_count.value, overflow_checks)
        result == IF constant_pool_count.status # "Ok" THEN constant_pool_count
                  ELSE constant_pool
    IN  /\ outcome.op = "none"
        /\ outcome' = [op |-> "read_constant_pool", status |-> result.status,
                       value |-> result.value, pos |-> result.pos, why |-> result.why]
        /\ UNCHANGED <<stream, lookup>>
        /\ UNCHANGED <<loader_vars, ref_vars>>

\* ConstantPool::get_entry on the outcome pool; its panic ends the process
GetEntry(index) ==
    LET got == get_entry(outcome.value, index)
    IN  /\ outcome.op = "read_constant_pool"
        /\ outcome.status = "Ok"
        /\ ~(lookup.done /\ ~lookup.ok)
        /\ lookup' = [index |-> index, ok |-> got.ok, value |-> got.value, done |-> TRUE]
        /\ UNCHANGED <<stream, outcome>>
        /\ UNCHANGED <<loader_vars, ref_vars>>

NextPool ==
    \/ \E overflow_checks \in BOOLEAN : ReadConstantPool(overflow_checks)
    \/ \E index \in 0..(2 * MaxPoolConstants + 1) : GetEntry(index)

SpecPool == InitPool /\ [][NextPool]_vars

\* the decoder specification: ClassFile::new on a stream, as
\* load_file_class calls it (class_loader.rs:114-116)
InitFile ==
    /\ IdleLoader
    /\ NoRefs
    /\ stream \in ClassStreams
    /\ outcome = NoDecode
    /\ lookup = NoLookup

Decode(overflow_checks) ==
    LET class == ClassFile_new(stream, overflow_checks)
    IN  /\ outcome.op = "none"
        /\ outcome' = [op |-> "ClassFile::new", status |-> class.status,
                       value |-> class.value, pos |-> class.pos, why |-> class.why]
        /\ UNCHANGED <<stream, lookup>>
        /\ UNCHANGED <<loader_vars, ref_vars>>

NextFile == \E overflow_checks \in BOOLEAN : Decode(overflow_checks)

SpecFile == InitFile /\ [][NextFile]_vars

\* the descriptor specification: the decoder on class files whose method
\* carries a descriptor, which read_methods hands to parse_method_descriptor
\* (method.rs:77)
InitDescriptor ==
    /\ IdleLoader
    /\ NoRefs
    /\ stream \in { DescriptorStreams[m] : m \in MethodTypes }
    /\ outcome = NoDecode
    /\ lookup = NoLookup

SpecDescriptor == InitDescriptor /\ [][NextFile]_vars

\* the attribute specification: attribute_info::new on one attribute
\* record at the start of the stream
InitAttribute ==
    /\ IdleLoader
    /\ NoRefs
    /\ stream \in AttributeStreams \cup { FullFrameStreams[f] : f \in FullFrames }
    /\ outcome = NoDecode
    /\ lookup = NoLookup

DecodeAttribute ==
    LET attribute == attribute_info_new(stream, 0, AttributePool)
    IN  /\ outcome.op = "none"
        /\ outcome' = [op |-> "attribute_info::new", status |-> attribute.status,
                       value |-> attribute.value, pos |-> attribute.pos,
                       why |-> attribute.why]
        /\ UNCHANGED <<stream, lookup>>
        /\ UNCHANGED <<loader_vars, ref_vars>>

NextAttribute == DecodeAttribute

SpecAttribute == InitAttribute /\ [][NextAttribute]_vars

-----------------------------------------------------------------------------
(* The hierarchy the class path describes *)

\* the entry search_classpath finds for a name
FileOf(n) == search_classpath(classpath, n).bytes

\* <n>.class exists, decodes and declares the name n
Consistent(n) ==
    /\ FileOf(n).exists
    /\ ClassFileNew(FileOf(n)).err = "None"
    /\ FileOf(n).this_class = n

DeclaresSuper(n) == Consistent(n) /\ FileOf(n).super_class.tag = "Symbolic"
SuperName(n) == FileOf(n).super_class.name

\* the super chain of n reaches target in 1..k steps
RECURSIVE ChainReaches(_, _, _)
ChainReaches(n, target, k) ==
    /\ k >= 1
    /\ DeclaresSuper(n)
    /\ \/ SuperName(n) = target
       \/ ChainReaches(SuperName(n), target, k - 1)

OnCycle(n) == ChainReaches(n, n, Cardinality(FileNames))
ProperAncestor(a, n) == ChainReaches(n, a, Cardinality(FileNames))

\* the length of the cycle n is on
CycleLength(n) ==
    CHOOSE k \in 1..Cardinality(FileNames) :
        ChainReaches(n, n, k) /\ \A j \in 1..(k - 1) : ~ChainReaches(n, n, j)

Last(seq) == seq[Len(seq)]

-----------------------------------------------------------------------------
(* Claims *)

\* C1: the handle a successful request returns is the one the table holds
\* for the name; a request for a name that is already in the table returns
\* that same handle (the one returned when the name was first loaded), looks
\* nothing up on the class path, decodes nothing, and leaves the table and
\* the arena as they were.
C1_CachedRequestIsIdempotent ==
    /\ (last_call.calls # <<>> /\ last_call.panic = "None") =>
           last_call.handle = class_map[last_call.name]
    /\ last_call.name \in DOMAIN last_call.map_before =>
        /\ last_call.handle = last_call.map_before[last_call.name]
        /\ last_call.lookups = <<>>
        /\ last_call.decodes = <<>>
        /\ last_call.calls = <<last_call.name>>
        /\ last_call.panic = "None"
        /\ class_map = last_call.map_before
        /\ Len(classes) = Cardinality(DOMAIN last_call.map_before)

\* a second request for the file class A, served from the table
C1_Witness ==
    /\ last_call.name = NameA
    /\ NameA \in DOMAIN last_call.map_before
    /\ last_call.handle = class_map[NameA]
    /\ classes[last_call.handle].kind = "File"

\* C2: when the super chain of the requested class reaches that class again
\* (a cycle of any length, A extends A included), the request ends with the
\* circularity fault after at most one create_class_rec frame per class of
\* the cycle plus one; it never exhausts the call stack.
C2_CycleYieldsCircularity ==
    OnCycle(last_call.name) =>
        /\ last_call.fault = "ClassCircularityError"
        /\ last_call.panic = "unwrap"
        /\ last_call.depth = CycleLength(last_call.name) + 1
        /\ Len(last_call.calls) = CycleLength(last_call.name) + 1

\* a request for a class on a cycle of three classes
C2_Witness ==
    /\ OnCycle(last_call.name)
    /\ CycleLength(last_call.name) = 3
    /\ last_call.fault = "ClassCircularityError"

\* C3 as stated: a request that ends in a fault leaves the table equal to the
\* table before the call, ancestors loaded during the request included.
C3_FaultRegistersNothing ==
    last_call.fault # "None" => class_map = last_call.map_before

\* C3 as amended: a request that ends in a fault (or in a panic) does not
\* register the requested class and changes no entry the table already had;
\* every entry it adds is a proper ancestor of the requested class on its
\* super chain, registered under its own name.
C3_FaultRegistersOnlyAncestors ==
    (last_call.fault # "None" \/ last_call.panic # "None") =>
        /\ last_call.name \notin DOMAIN class_map
        /\ \A n \in DOMAIN last_call.map_before :
               n \in DOMAIN class_map /\ class_map[n] = last_call.map_before[n]
        /\ \A n \in DOMAIN class_map \ DOMAIN last_call.map_before :
               /\ ProperAncestor(n, last_call.name)
               /\ classes[class_map[n]].name = n

\* a request for a class whose super class loads during the request and is
\* an interface: the super class stays registered, the class is not
C3_Witness ==
    /\ last_call.fault = "IncompatibleClassChangeError"
    /\ last_call.name \notin DOMAIN class_map
    /\ DOMAIN class_map # DOMAIN last_call.map_before

\* C4: a request hands its caller a handle or a fault value; a fault never
\* aborts the process, so the loader can serve a later request.
C4_FaultNeverAborts ==
    last_call.fault # "None" => ~panicked
\* the class the request was loading when it ended: the last one fetched
\* from the class path
Innermost == Last(last_call.lookups)

\* C5: a decoded class that declares no super class and is not named
\* java/lang/Object yields the format fault and is not registered; the class
\* java/lang/Object that declares no super class is registered, and no
\* create_class_rec call follows the one that loaded it.
C5_OnlyTheRootHasNoSuper ==
    (last_call.lookups # <<>> /\ Consistent(Innermost) /\ ~DeclaresSuper(Innermost)) =>
        IF Innermost = ObjectName
        THEN /\ ObjectName \in DOMAIN class_map
             /\ classes[class_map[ObjectName]].kind = "File"
             /\ classes[class_map[ObjectName]].super_class = NoSuper
             /\ Last(last_call.calls) = ObjectName
        ELSE /\ last_call.fault = "ClassFormatError"
             /\ Innermost \notin DOMAIN class_map

\* the root type was loaded by an earlier request, and this request found a
\* class other than the root type that declares no super class
C5_Witness ==
    /\ ObjectName \in DOMAIN last_call.map_before
    /\ last_call.lookups # <<>>
    /\ Innermost # ObjectName
    /\ Consistent(Innermost) /\ ~DeclaresSuper(Innermost)
    /\ last_call.fault = "ClassFormatError"

\* C6: when the super class a class resolved (from the table or by loading
\* it in this request) has the interface flag, the request yields the
\* incompatible-hierarchy fault and the class is not registered.
C6_InterfaceSuperIsRejected ==
    \A i \in 1..(Len(last_call.calls) - 1) :
        LET sub == last_call.calls[i]
            sup == last_call.calls[i + 1]
        IN  (sup \in DOMAIN class_map
             /\ "ACC_INTERFACE" \in classes[class_map[sup]].access_flags) =>
                /\ last_call.fault = "IncompatibleClassChangeError"
                /\ sub \notin DOMAIN class_map

\* the super class was registered by an earlier request
C6_Witness ==
    /\ Len(last_call.calls) = 2
    /\ last_call.calls[2] \in DOMAIN last_call.map_before
    /\ "ACC_INTERFACE" \in classes[class_map[last_call.calls[2]]].access_flags
    /\ last_call.fault = "IncompatibleClassChangeError"
    /\ last_call.name \notin DOMAIN class_map

\* the super class was loaded by the same request
C6_WitnessSameRequest ==
    /\ Len(last_call.calls) >= 2
    /\ Last(last_call.calls) \notin DOMAIN last_call.map_before
    /\ Last(last_call.calls) \in DOMAIN class_map
    /\ last_call.fault = "IncompatibleClassChangeError"

\* the file fetched last decodes to a class of another name
Mismatch ==
    /\ last_call.lookups # <<>>
    /\ FileOf(Innermost).exists
    /\ ClassFileNew(FileOf(Innermost)).err = "None"
    /\ FileOf(Innermost).this_class # Innermost

\* C7 as stated: the name check comes first, so a decoded name that differs
\* from the requested name yields the name-mismatch fault
\* (NoClassDefFoundError in the code), also when the decoded name is
\* registered.
C7_NameMismatchFirst ==
    Mismatch => last_call.fault = "NoClassDefFoundError"

\* C7 as amended: the redefinition check comes first; a decoded name that
\* differs from the requested name yields the linkage fault when the decoded
\* name is registered and the name-mismatch fault when it is not.
C7_RedefinitionFirst ==
    Mismatch =>
        last_call.fault = IF FileOf(Innermost).this_class \in DOMAIN class_map
                          THEN "LinkageError"
                          ELSE "NoClassDefFoundError"

\* A.class declares the name B and B is registered
C7_Witness ==
    /\ Mismatch
    /\ FileOf(Innermost).this_class \in DOMAIN class_map
    /\ last_call.fault = "LinkageError"

\* C8: every top-level request hands create_class_rec an empty in-progress
\* set, whatever the request before it left in its own; a circularity fault
\* is reported only for a class whose super chain reaches it again.
C8_FreshInheritanceStack ==
    /\ last_call.entry_stack = {}
    /\ last_call.fault = "ClassCircularityError" => OnCycle(Innermost)

\* the request before left names in its set, and this request loads a class
\* whose super class is one of them
C8_Witness ==
    /\ last_call.stale_stack # {}
    /\ last_call.lookups = <<last_call.name>>
    /\ SuperName(last_call.name) \in last_call.stale_stack
    /\ last_call.fault = "None"
    /\ last_call.name \in DOMAIN class_map

\* the primitive letters of the descriptor grammar and the kinds they name
PrimitiveLetters == {"B", "C", "D", "F", "I", "J", "S", "Z"}
KindOfLetter(c) ==
    CASE c = "B" -> "Byte" [] c = "C" -> "Character" [] c = "D" -> "Double"
      [] c = "F" -> "Float" [] c = "I" -> "Integer" [] c = "J" -> "Long"
      [] c = "S" -> "Short" [] c = "Z" -> "Boolean"

\* k >= 1 times '[' and one primitive letter
IsPrimitiveArrayName(name) ==
    /\ Len(name) >= 2
    /\ \A i \in 1..(Len(name) - 1) : name[i] = "["
    /\ name[Len(name)] \in PrimitiveLetters

\* the last request synthesized the array class of its name with k
\* dimensions, without the class path and without a super-class step
SynthesizedPrimitiveArray(k) ==
    /\ last_call.panic = "None" /\ last_call.fault = "None"
    /\ last_call.name \in DOMAIN class_map
    /\ last_call.handle = class_map[last_call.name]
    /\ LET class == classes[class_map[last_call.name]]
       IN  /\ class.kind = "Array"
           /\ class.dimensions = k
           /\ class.component_type = Primitive(KindOfLetter(Last(last_call.name)))
           /\ class.access_flags = {"ACC_PUBLIC"}
           /\ class.name = last_call.name
    /\ last_call.lookups = <<>>
    /\ last_call.decodes = <<>>
    /\ last_call.calls = <<last_call.name>>
    /\ last_call.inheritance_stack = {}

IsReferenceArrayName(name) ==
    LET k == SkipBrackets(name, 0) IN
    /\ k >= 1
    /\ Len(name) >= k + 3
    /\ name[k + 1] = "L"
    /\ ScanSemicolon(name, k) = Len(name) - 1

ComponentClass(name) == Slice(name, SkipBrackets(name, 0) + 1, Len(name) - 1)

\* C10: a request for an array of a reference type resolves the component
\* class: when it succeeds the component class is registered, and when the
\* component class cannot be loaded the request faults.
C10_ComponentIsResolved ==
    IsReferenceArrayName(last_call.name) =>
        /\ last_call.panic = "None" => ComponentClass(last_call.name) \in DOMAIN class_map
        /\ ~FileOf(ComponentClass(last_call.name)).exists => last_call.panic # "None"

-----------------------------------------------------------------------------
(* C11 *)

\* the roots that hold <n>.class
Holders(n) == { k \in 1..Len(classpath) : classpath[k][n].exists }
FirstHolder(n) == CHOOSE k \in Holders(n) : \A j \in Holders(n) : k <= j
UpTo(k) == [i \in 1..k |-> i]

\* C11: every search of the class path asks the roots in configured order
\* and stops at the first hit: it returns the bytes of the lowest-index root
\* that holds <name>.class and asks no root after it, and it ends in
\* NoClassDefFoundError only when no root holds the entry, after all of
\* them have been asked
C11_FirstRootWins ==
    \A i \in 1..Len(last_call.searches) :
        LET search == last_call.searches[i] IN
        IF Holders(search.name) = {}
        THEN /\ ~search.ok
             /\ search.consulted = UpTo(Len(classpath))
             /\ i = Len(last_call.searches)
             /\ last_call.fault = "NoClassDefFoundError"
        ELSE /\ search.ok
             /\ search.bytes = classpath[FirstHolder(search.name)][search.name]
             /\ search.consulted = UpTo(FirstHolder(search.name))
             /\ (i = Len(last_call.searches) => last_call.fault # "NoClassDefFoundError")

\* three roots: the first lacks A.class, the second and the third hold it
\* with different bytes; the request for A was served from the second
C11_Witness ==
    /\ Len(classpath) = 3
    /\ Holders(NameA) = {2, 3}
    /\ classpath[2][NameA] # classpath[3][NameA]
    /\ last_call.name = NameA
    /\ last_call.fault = "None" /\ last_call.panic = "None"
    /\ last_call.searches[1].consulted = <<1, 2>>
    /\ classes[last_call.handle].access_flags = classpath[2][NameA].access_flags

\* no root holds B.class: the request for B asked all three and found nothing
C11_WitnessNotFound ==
    /\ Len(classpath) = 3
    /\ last_call.name = NameB
    /\ last_call.searches[1].consulted = <<1, 2, 3>>
    /\ last_call.fault = "NoClassDefFoundError"

-----------------------------------------------------------------------------
(* C12 *)

\* the keys under which the class of handle h is stored
KeysOf(h) == { n \in DOMAIN class_map : class_map[n] = h }

\* C12: in every reachable state each registered class is stored under
\* exactly one key of the table, and that key is the class's own name: the
\* decoded this_class of a file class, the whole bracketed name of an array
\* class
C12_OneKeyItsOwnName ==
    /\ \A n \in DOMAIN class_map :
           /\ class_map[n] \in 1..Len(classes)
           /\ classes[class_map[n]].name = n
    /\ \A h \in 1..Len(classes) : Cardinality(KeysOf(h)) = 1

\* the table holds an array class and two file classes, one of them
\* registered as the super class of the other, and the class path also
\* holds a file whose this_class is not its file name
C12_Witness ==
    /\ Len(classes) >= 3
    /\ \E h \in 1..Len(classes) : classes[h].kind = "Array"
    /\ \E h \in 1..Len(classes) :
           /\ classes[h].kind = "File"
           /\ classes[h].super_class.tag = "Symbolic"
           /\ classes[h].super_class.name \in DOMAIN class_map
    /\ \E n \in FileNames : FileOf(n).exists /\ FileOf(n).this_class # n

-----------------------------------------------------------------------------
(* C13 *)

\* C13: resolve on a Symbolic(n) reference calls the resolver exactly once,
\* with n, and leaves the reference Static on the handle the resolver
\* returned, which is also what resolve returns; resolve on a Static
\* reference returns its handle without calling the resolver; and no get or
\* resolve turns a Static reference into anything else
C13_PromotionIsMonotonic ==
    LET before == ref_call.before
        r == ref_call.ref
    IN  /\ (ref_call.op = "resolve" /\ before[r].tag = "Symbolic") =>
               /\ resolver_calls = Append(ref_call.calls_before, before[r].name)
               /\ refs[r].tag = "Static"
               /\ refs[r].class = ref_call.returned
        /\ (ref_call.op = "resolve" /\ before[r].tag = "Static") =>
               /\ resolver_calls = ref_call.calls_before
               /\ ref_call.returned = before[r].class
        /\ ref_call.op # "none" =>
               \A q \in DOMAIN before :
                   /\ before[q].tag = "Static" =>
                          refs[q].tag = "Static" /\ refs[q].class = before[q].class
                   /\ q # r => refs[q].tag = before[q].tag

\* a reference was promoted by one resolve and a later resolve of the same
\* reference returned the same handle: the resolver was called once for it
C13_Witness ==
    /\ ref_call.op = "resolve"
    /\ ref_call.before[ref_call.ref].tag = "Static"
    /\ ref_call.returned = refs[ref_call.ref].class
    /\ Len(resolver_calls) = 1
    /\ \E q \in DOMAIN refs : refs[q].tag = "Symbolic"

-----------------------------------------------------------------------------
(* C14 *)

\* the stream is a pool with the count its constants call for
WellCounted(items) == stream = EncodePool(SlotsOf(items) + 1, items)

\* the constant the pool should hold at an index, if any
HoldersOf(items, index) == { k \in DOMAIN items : IndexOf(items, k) = index }

\* C14: in a outcome constant pool index 0 is unused and the constants sit
\* at indices counted from 1; an 8-byte constant (Long, Double) at index i
\* leaves i+1 an unused slot, whose lookup fails, and puts the next constant
\* at i+2; every other constant takes exactly one index
C14_WideConstantsTakeTwoSlots ==
    (outcome.op = "read_constant_pool" /\ outcome.status = "Ok") =>
        LET pool == outcome.value IN
        /\ pool[1] = Unused
        /\ ~get_entry(pool, 0).ok
        /\ \A i \in 1..(Len(pool) - 1) :
               IF get_entry(pool, i).ok /\ pool[i + 1].tag \in {"Long", "Double"}
               THEN /\ i + 1 < Len(pool)
                    /\ ~get_entry(pool, i + 1).ok
                    /\ (i + 2 < Len(pool) => get_entry(pool, i + 2).ok)
               ELSE get_entry(pool, i).ok \/ pool[i].tag \in {"Long", "Double"}
        /\ \A items \in PoolItemLists :
               WellCounted(items) =>
                   /\ Len(pool) = SlotsOf(items) + 1
                   /\ \A k \in DOMAIN items :
                          get_entry(pool, IndexOf(items, k)) = Found(items[k])
                   /\ \A i \in 0..Len(pool) :
                          get_entry(pool, i).ok <=> HoldersOf(items, i) # {}
        /\ lookup.done =>
               /\ lookup.ok <=> (lookup.index < Len(pool) /\ pool[lookup.index + 1] # Unused)
               /\ lookup.ok => lookup.value = pool[lookup.index + 1]

\* a Long at index 1, a Utf8 at index 3; the lookup of index 2 has failed
C14_Witness ==
    /\ outcome.op = "read_constant_pool" /\ outcome.status = "Ok"
    /\ Len(outcome.value) = 4
    /\ outcome.value[2].tag = "Long"
    /\ outcome.value[4] = CONSTANT_Utf8_info(NameA)
    /\ lookup.done /\ lookup.index = 2 /\ ~lookup.ok

-----------------------------------------------------------------------------
(* C15 to C18: the decoder *)

Decoded == outcome.op = "ClassFile::new"

\* the variants whose bytes the stream holds
VariantStreams == [p \in Variants |-> SampleFile(p)]
VariantsOfStream == { p \in Variants : VariantStreams[p] = stream }

\* the closed enumerations of the four tags
ConstantPoolTags == {1, 3, 4, 5, 6, 7, 8, 9, 10, 11, 12}
ElementValueTags == ConstValueTags \cup {"e", "c", "@", "["}
OutOfRange(p) ==
    \/ p.pool_tag \notin ConstantPoolTags
    \/ p.element_tag \notin ElementValueTags
    \/ p.verification_tag > 8
    \/ p.frame_type \in 128..246

\* C15: a class file holding a constant-pool tag, an element-value tag, a
\* verification-type tag or a stack-map frame type outside its enumeration
\* decodes to the result ClassFormatError
C15_OutOfRangeTagIsFormatError ==
    Decoded => \A p \in VariantsOfStream :
                   OutOfRange(p) => outcome.status = "ClassFormatError"

\* what the code does with such a file: it panics, and no default variant
\* is substituted
C15_OutOfRangeTagPanics ==
    Decoded => \A p \in VariantsOfStream :
                   OutOfRange(p) => outcome.status = "Panic"

C15_Witness ==
    /\ Decoded
    /\ \E p \in VariantsOfStream : p.frame_type = 200
    /\ outcome.status = "Panic"

\* the attributes of the class a stream decodes to
ClassAttributes == outcome.value.attributes

\* C16: the class attribute named Vendor, a name parse_info does not
\* know, decodes to Unknown_attribute holding exactly the attribute_length
\* bytes of its body, in order, and the attribute after it decodes as the
\* bytes after the body say
C16_UnknownAttributeIsKept ==
    Decoded => \A p \in VariantsOfStream :
                   ~OutOfRange(p) /\ ~unsupported(p.major) =>
                       /\ outcome.status = "Ok"
                       /\ Len(ClassAttributes) = 2
                       /\ ClassAttributes[1].attribute_name_index = 15
                       /\ ClassAttributes[1].attribute_length = Len(p.blob)
                       /\ ClassAttributes[1].info = Info("Unknown_attribute", p.blob)
                       /\ ClassAttributes[2].attribute_name_index = 7
                       /\ ClassAttributes[2].info = Info("ConstantValue_attribute", <<8>>)
                       /\ outcome.pos = Len(stream)

C16_Witness ==
    /\ Decoded
    /\ \E p \in VariantsOfStream : p.blob = <<0, 0, 0, 0>>
    /\ outcome.status = "Ok"
    /\ ClassAttributes[1].info = Info("Unknown_attribute", <<0, 0, 0, 0>>)
    /\ ClassAttributes[2].info.kind = "ConstantValue_attribute"

\* the stream is a proper prefix of the well-formed sample
ProperPrefix == stream \in Prefixes(SampleFile(Sample))

\* C17: every proper prefix of the well-formed sample decodes to the
\* result ClassFormatError, wherever the stream is cut
C17_TruncationIsFormatError ==
    Decoded /\ ProperPrefix => outcome.status = "ClassFormatError"

\* the bytes of the sample before its method; the header of a method is
\* the eight bytes after them
MethodStart ==
    Len(SampleHeader(Sample.major))
    + Len(SamplePool(Sample.pool_tag, Sample.descriptor))
    + Len(SampleClassItems) + Len(SampleFields) + 2

\* what the code does: a cut in the header of a method panics, any other
\* cut gives ClassFormatError, and no prefix yields a class
C17_TruncationByPlace ==
    Decoded /\ ProperPrefix =>
        IF Len(stream) \in MethodStart..(MethodStart + 7)
        THEN outcome.status = "Panic"
        ELSE outcome.status = "ClassFormatError"

C17_Witness ==
    /\ Decoded
    /\ Len(stream) = MethodStart + 3
    /\ ProperPrefix
    /\ outcome.status = "Panic"

\* the major version a stream carries in its bytes 6 and 7
HasMajor == Len(stream) >= 8
MajorOf == stream[7] * U8Values + stream[8]

\* C18: ClassFile::new returns UnsupportedClassVersionError exactly when
\* the major version of the stream is above 52: 53 and above is rejected
\* whatever follows, 52 and below passes the version check
C18_RejectedIffAboveCeiling ==
    Decoded =>
        (outcome.status = "UnsupportedClassVersionError"
            <=> (HasMajor /\ MajorOf > 52))

\* a stream of version 53 cut right after its version is turned away for
\* its version, and the well-formed sample of version 52 is decoded
C18_Witness ==
    /\ Decoded
    /\ Len(stream) = 8
    /\ MajorOf = 53
    /\ outcome.status = "UnsupportedClassVersionError"

C18_WitnessCeiling ==
    /\ Decoded
    /\ stream = SampleFile(Sample)
    /\ MajorOf = 52
    /\ outcome.status = "Ok"

-----------------------------------------------------------------------------
(* C19 *)

\* the registered classes named java/lang/Object
RegisteredObjects ==
    { h \in DOMAIN classes : classes[h].name = ObjectName }

\* C19: the registered class named java/lang/Object has no super reference
C19_RootHasNoSuper ==
    \A h \in RegisteredObjects : classes[h].super_class = NoSuper

\* an Object.class that declares no super class is registered
C19_Witness ==
    /\ classpath[1][ObjectName] # Absent
    /\ \E h \in RegisteredObjects : classes[h].super_class = NoSuper

-----------------------------------------------------------------------------
(* C20 *)

\* the method types whose class file the stream holds
MethodTypesOfStream == { m \in MethodTypes : DescriptorStreams[m] = stream }

\* the descriptor the decoder gave the method of the class
ParsedDescriptor == outcome.value.methods[1].descriptor

\* C20: the descriptor (parameters)return of a method parses to the
\* parameter types between the parentheses, in order, and to the return
\* type written after ')': Void only for V
C20_DescriptorMatchesText ==
    Decoded => \A m \in MethodTypesOfStream :
                   /\ outcome.status = "Ok"
                   /\ ParsedDescriptor.parameters
                          = [i \in DOMAIN m.parameters |-> m.parameters[i].desc]
                   /\ ParsedDescriptor.return_type = m.returns.return_type

\* what the code does: the parameters that are primitives or arrays of
\* primitives are parsed as written and there are as many parameters as
\* written, but the return type is always Void
C20_ParametersCountedReturnVoid ==
    Decoded => \A m \in MethodTypesOfStream :
                   /\ outcome.status = "Ok"
                   /\ Len(ParsedDescriptor.parameters) = Len(m.parameters)
                   /\ \A i \in DOMAIN m.parameters :
                          (\A k \in DOMAIN m.parameters[i].text :
                               m.parameters[i].text[k] # ";") =>
                              ParsedDescriptor.parameters[i] = m.parameters[i].desc
                   /\ ParsedDescriptor.return_type = Void

-----------------------------------------------------------------------------
(* C21 *)

\* what ClassFile::new gives for every variant of the sample class file
VariantDecodings == [p \in Variants |-> ClassFile_new(VariantStreams[p], TRUE)]

\* the variants that decode to the ClassFile the stream decoded to
SameDecoding ==
    { p \in Variants : /\ VariantDecodings[p].status = "Ok"
                       /\ VariantDecodings[p].value = outcome.value }

\* C21: the decoded records of a well-formed class file determine its
\* bytes, as re-encoding them to the original bytes needs: no class file
\* of other bytes decodes to the same ClassFile
C21_DecodedRecordsDetermineBytes ==
    (Decoded /\ outcome.status = "Ok" /\ VariantsOfStream # {}) =>
        \A p \in SameDecoding : VariantStreams[p] = stream

-----------------------------------------------------------------------------
(* C22 *)

DecodedAttribute == outcome.op = "attribute_info::new" /\ outcome.status = "Ok"

\* C22: decoding one attribute record moves the cursor 6 + attribute_length
\* bytes on: the name index, the length, and a body of the declared length
C22_CursorAdvancesByDeclaredLength ==
    DecodedAttribute => outcome.pos = 6 + outcome.value.attribute_length

-----------------------------------------------------------------------------
(* C23 *)

\* the full frames whose StackMapTable record the stream holds
FullFramesOfStream == { f \in FullFrames : FullFrameStreams[f] = stream }

\* the frame the decoder gave for the one frame of the record
DecodedFrame == outcome.value.info.data[1]

\* the verification_type_info a tag decodes to
VerificationItem(tag) == verification_type_info_new(VerificationBytes(tag), 0).value

\* C23: a decoded full frame holds number_of_locals locals and
\* number_of_stack_items stack items, each list as written in the stream
C23_FullFrameListsAsCounted ==
    DecodedAttribute =>
        \A f \in FullFramesOfStream :
            /\ DecodedFrame.frame_type = 255
            /\ Len(DecodedFrame.locals) = DecodedFrame.number_of_locals
            /\ Len(DecodedFrame.stack) = DecodedFrame.number_of_stack_items
            /\ DecodedFrame.locals = [i \in DOMAIN f[1] |-> VerificationItem(f[1][i])]
            /\ DecodedFrame.stack = [i \in DOMAIN f[2] |-> VerificationItem(f[2][i])]

\* a full frame with stack items was decoded
C23_Witness ==
    /\ DecodedAttribute
    /\ \E f \in FullFramesOfStream : f[2] # <<>> /\ DecodedFrame.frame_type = 255

-----------------------------------------------------------------------------
(* C24 *)

\* C24: within one top-level request the class-path resolver is asked for
\* each class name at most once and each class file is decoded at most
\* once, also when the request ends in the circularity fault
C24_EachNameAskedOnce ==
    /\ \A i, j \in DOMAIN last_call.lookups :
           last_call.lookups[i] = last_call.lookups[j] => i = j
    /\ \A i, j \in DOMAIN last_call.decodes :
           last_call.decodes[i] = last_call.decodes[j] => i = j

\* C24 as amended: a name is asked for at most twice; only the class that
\* closes a cyclic super chain is asked for and decoded a second time, that
\* second lookup is the last of the request, and the request ends in the
\* circularity fault
C24_OnlyTheCycleClosesTwice ==
    \A i, j \in DOMAIN last_call.lookups :
        (i < j /\ last_call.lookups[i] = last_call.lookups[j]) =>
            /\ j = Len(last_call.lookups)
            /\ last_call.decodes = last_call.lookups
            /\ last_call.fault = "ClassCircularityError"
            /\ \A k \in DOMAIN last_call.lookups :
                   (k # i /\ k # j) => last_call.lookups[k] # last_call.lookups[i]

\* a request on a cyclic super chain of two classes ended in the
\* circularity fault after the first class was fetched twice
C24_Witness ==
    /\ last_call.fault = "ClassCircularityError"
    /\ Len(last_call.lookups) = 3
    /\ last_call.lookups[1] = last_call.lookups[3]
    /\ last_call.lookups[1] # last_call.lookups[2]
    /\ last_call.decodes = last_call.lookups

-----------------------------------------------------------------------------
(* C25 *)

\* the registered names whose class is a file class that declares a super
\* class
RegisteredWithSuper ==
    { n \in DOMAIN class_map : /\ classes[class_map[n]].kind = "File"
                               /\ classes[class_map[n]].super_class # NoSuper }

\* C25: the name->class table is closed under the super relation: the
\* super class a registered file class declares is registered too, and was
\* registered (allocated in the arena) before the class
C25_TableClosedUnderSuper ==
    \A n \in RegisteredWithSuper :
        LET super_name == classes[class_map[n]].super_class.name
        IN  /\ super_name \in DOMAIN class_map
            /\ class_map[super_name] < class_map[n]

\* a file class and the chain of two super classes above it are registered
C25_Witness ==
    \E n \in RegisteredWithSuper :
        classes[class_map[n]].super_class.name \in RegisteredWithSuper

-----------------------------------------------------------------------------
(* C26 *)

\* C26: a step rebinds and removes no name of the table, and every class
\* it allocates in the arena is registered under a name that was not in
\* the table (register_class overwrites no entry)
C26_TableGrowsNeverRebinds ==
    [][/\ \A n \in DOMAIN class_map :
              n \in DOMAIN class_map' /\ class_map'[n] = class_map[n]
       /\ Len(classes') - Len(classes)
              = Cardinality(DOMAIN class_map' \ DOMAIN class_map)]_vars

\* a second request has added classes to a table that held some
C26_Witness ==
    /\ requests = 2
    /\ last_call.map_before # <<>>
    /\ DOMAIN last_call.map_before # DOMAIN class_map
    /\ \A n \in DOMAIN last_call.map_before : class_map[n] = last_call.map_before[n]

-----------------------------------------------------------------------------
(* C27 *)

\* the names on the super chain of a name, the name included, as the
\* registered classes declare it; k bounds the length of the chain
RECURSIVE SuperChain(_, _)
SuperChain(n, k) ==
    IF k = 0 \/ n \notin DOMAIN class_map THEN {}
    ELSE {n} \cup (IF classes[class_map[n]].super_class = NoSuper THEN {}
                   ELSE SuperChain(classes[class_map[n]].super_class.name, k - 1))

\* the classes a class names as interfaces and in the descriptors of its
\* fields and methods
NamedBy(class) ==
    { class.interfaces[i].name : i \in DOMAIN class.interfaces }
    \cup { class.fields[i].class.name : i \in DOMAIN class.fields }
    \cup UNION { { class.methods[i].parameters[j].class.name :
                     j \in DOMAIN class.methods[i].parameters } :
                 i \in DOMAIN class.methods }

\* the last request was for a file class and handed back a class
SucceededForFile ==
    /\ last_call.name \in FileNames
    /\ last_call.handle # 0
    /\ last_call.fault = "None"
    /\ last_call.panic = "None"

Elements(seq) == { seq[i] : i \in DOMAIN seq }

\* C27: a successful request for a file class adds to the table the
\* requested class and its super-chain ancestors that were not registered,
\* and nothing else: only those are fetched and decoded, the classes it
\* names as interfaces and in descriptors are not, and the entries the
\* table held are unchanged
C27_SuccessAddsOnlyTheSuperChain ==
    SucceededForFile =>
        LET added == DOMAIN class_map \ DOMAIN last_call.map_before
            chain == SuperChain(last_call.name, Cardinality(DOMAIN class_map))
        IN  /\ added = chain \ DOMAIN last_call.map_before
            /\ Elements(last_call.lookups) \subseteq added
            /\ Elements(last_call.decodes) \subseteq added
            /\ \A n \in NamedBy(classes[class_map[last_call.name]]) \ chain :
                   n \notin added /\ n \notin Elements(last_call.lookups)
            /\ \A n \in DOMAIN last_call.map_before :
                   class_map[n] = last_call.map_before[n]

\* a request succeeded for a class that names, as an interface and in
\* descriptors, a class that has a class file and is not on its super chain
C27_Witness ==
    /\ SucceededForFile
    /\ last_call.map_before = <<>>
    /\ LET class == classes[class_map[last_call.name]]
       IN  /\ class.interfaces # <<>> /\ class.fields # <<>> /\ class.methods # <<>>
           /\ \E n \in NamedBy(class) :
                  /\ FileOf(n).exists
                  /\ n \notin SuperChain(last_call.name, Cardinality(DOMAIN class_map))

-----------------------------------------------------------------------------
(* The reference-type specification: the two descriptor parsers on the     *)
(* texts built around one class name                                       *)

\* the longest class name of the reference-type specification
MaxNameLength == 3

\* the characters of its class names: none is ';'
NameCharacters == {"A", "L", "[", "/", "("}

\* the non-empty class names without ';'
ReferenceNames == UNION { [1..k -> NameCharacters] : k \in 1..MaxNameLength }

\* the class name the stream holds
NameOfStream == [i \in DOMAIN stream |-> Chr(stream[i])]

\* the field descriptor and the method descriptor that name the class
FieldDescriptorOf(n) == <<"L">> \o n \o <<";">>
MethodDescriptorOf(n) == <<"(", "L">> \o n \o <<";", ")", "V">>

InitReference ==
    /\ IdleLoader
    /\ NoRefs
    /\ stream \in { TextBytes(n) : n \in ReferenceNames }
    /\ outcome = NoDecode
    /\ lookup = NoLookup

\* field_info::new and method_info::new parse the descriptor texts
ParseReference ==
    /\ outcome.op = "none"
    /\ LET field == parse_field_descriptor(FieldDescriptorOf(NameOfStream))
           method == parse_method_descriptor(MethodDescriptorOf(NameOfStream))
       IN  outcome' = [op |-> "parse_descriptor",
                       status |-> IF field.ok /\ method.ok THEN "Ok" ELSE "Panic",
                       value |-> [field |-> field.desc,
                                  parameters |-> method.parameters],
                       pos |-> 0,
                       why |-> ""]
    /\ UNCHANGED <<loader_vars, ref_vars, stream, lookup>>

NextReference == ParseReference

SpecReference == InitReference /\ [][NextReference]_vars

(* C28 *)

\* the field-descriptor parser names the class of L<n>; exactly
FieldParserGivesTheName ==
    outcome.op = "parse_descriptor" =>
        outcome.value.field = Reference(Symbolic(NameOfStream))

\* the method-descriptor parser names the class of the parameter of
\* (L<n>;)V exactly
MethodParserGivesTheName ==
    outcome.op = "parse_descriptor" =>
        outcome.value.parameters = <<Reference(Symbolic(NameOfStream))>>

\* C28: for every non-empty class name n without ';', the field-descriptor
\* parser on L<n>; and the method-descriptor parser on the parameter of
\* (L<n>;)V both give the Symbolic reference named exactly n, so the two
\* parsers agree
C28_BothParsersGiveTheName ==
    /\ outcome.op = "parse_descriptor" => outcome.status = "Ok"
    /\ FieldParserGivesTheName
    /\ MethodParserGivesTheName

(* C29 *)

\* the constant_pool_count the stream starts with
DeclaredCount == read_u16(stream, 0).value

\* the reader took its 16-bit counter below zero: with overflow checks the
\* subtraction that does so panics
CounterWentBelowZero ==
    /\ outcome.op = "read_constant_pool"
    /\ outcome.status = "Panic"
    /\ outcome.why = "attempt to subtract with overflow"

\* the table of a pool that was read has no more slots than were declared
TableWithinCount ==
    (outcome.op = "read_constant_pool" /\ outcome.status = "Ok") =>
        Len(outcome.value) <= DeclaredCount

\* C29: for every constant_pool_count n and every entry sequence the
\* remaining-slot counter of read_constant_pool never goes below zero, and
\* the decoded table never has more than n slots; n = 0 and an 8-byte
\* constant at the last index n-1 included
C29_CounterStaysInRange == ~CounterWentBelowZero /\ TableWithinCount

\* the counter went below zero on the count 0
BelowZeroOnCountZero == CounterWentBelowZero /\ DeclaredCount = 0

\* the counter went below zero on an 8-byte constant at the last index
BelowZeroOnWideLast == CounterWentBelowZero /\ DeclaredCount > 0

(* C30 *)

\* every name fetched from the class path by the last request was absent
\* from the table when the request began
FetchedOnlyUnregistered ==
    \A i \in 1..Len(last_call.lookups) :
        last_call.lookups[i] \notin DOMAIN last_call.map_before

\* C30: the linkage fault is reported only when the decoded name differs
\* from the requested name; a class file that declares the name it was
\* requested by never meets the already-registered check, because a
\* registered name is served from the table and never fetched
C30_LinkageFaultOnlyOnMismatch ==
    /\ last_call.fault = "LinkageError" => Mismatch
    /\ FetchedOnlyUnregistered

\* the linkage fault was reported for a class file that was fetched for an
\* unregistered name and declares a registered one
C30_Witness ==
    /\ last_call.fault = "LinkageError"
    /\ last_call.lookups # <<>>
    /\ FileOf(Innermost).this_class # Innermost
    /\ FileOf(Innermost).this_class \in DOMAIN last_call.map_before
    /\ Innermost \notin DOMAIN last_call.map_before

====
